---- MODULE Spec2Model ----
(***************************************************************************)
(* Poll lifecycle, voting and poll management of alx-polly.                *)
(*                                                                         *)
(* The tables are modelled with the columns the TypeScript code addresses  *)
(* (votes carry poll_id, lib/actions/shared/supabase-client.ts:140-144)    *)
(* and with the constraints, cascades and row-level-security policies that *)
(* app/(polls)/supabase_setup.sql declares.  Every storage round trip      *)
(* (one awaited supabase call) is one atomic step; a handler that awaits   *)
(* several calls is a sequence of steps that other requests interleave     *)
(* with.                                                                   *)
(***************************************************************************)
EXTENDS Integers, Sequences, FiniteSets, TLC

\* ------------------------------------------------------------------ bounds
MaxTime  == 3      \* the clock runs over 0..MaxTime
NumUsers == 2      \* registered users 1..NumUsers
MaxVotes == 3      \* vote rows the votes table may hold

\* ------------------------------------------------------------ value spaces
NULL    == -1              \* SQL NULL / JS null
NoError == "none"          \* the error field of a storage response is null
NoUser  == 0               \* getUser() found no session
BadId   == 0               \* a string that is not UUID-shaped
Users   == 1..NumUsers
Procs   == {1, 2}         \* two requests can be in flight at once
Time    == 0..MaxTime

VARIABLES polls, options, votes, now, proc, out, nextId, form

vars == <<polls, options, votes, now, proc, out, nextId, form>>

\* ------------------------------------------------ PostgREST / SQL semantics

\* .single(): a row only when exactly one row matched; otherwise data is null
\* and the error code is PGRST116 (for zero rows and for several rows alike).
\* data is the set holding the returned row, empty for null.
Single(rows) ==
  IF Cardinality(rows) = 1
  THEN [data |-> rows, error |-> NoError]
  ELSE [data |-> {}, error |-> "PGRST116"]

\* Row-level-security policies of public.votes: SELECT for all, INSERT for any
\* authenticated role, DELETE of one's own rows, and no policy for UPDATE.
VotesPolicy(cmd, uid, row) ==
  CASE cmd = "SELECT" -> TRUE
    [] cmd = "INSERT" -> uid # NoUser
    [] cmd = "DELETE" -> uid = row.user_id
    [] OTHER          -> FALSE

\* The error a votes insert raises, or NULL: the option_id foreign key and
\* UNIQUE (option_id, user_id).
VotesInsertError(row) ==
  IF ~VotesPolicy("INSERT", row.user_id, row) THEN "42501"
  ELSE IF ~\E o \in options : o.id = row.option_id THEN "23503"
  ELSE IF \E v \in votes : v.option_id = row.option_id /\ v.user_id = row.user_id
       THEN "23505"
  ELSE NoError

\* castVoteFormSchema: both identifiers must be UUID-shaped.
castVoteFormSchema(optionId, pollId) ==
  {f \in {"optionId", "pollId"} :
      (f = "optionId" /\ optionId = BadId) \/ (f = "pollId" /\ pollId = BadId)}

\* ------------------------------------------------------- lifecycle status
isPollActive(poll, t) ==
  LET hasStarted  == IF poll.starts_at # NULL THEN t >= poll.starts_at ELSE TRUE
      hasNotEnded == IF poll.ends_at # NULL THEN t <= poll.ends_at ELSE TRUE
  IN  hasStarted /\ hasNotEnded

getPollStatus_endInclusive(poll, t) ==
  LET hasStarted == IF poll.starts_at # NULL THEN t >= poll.starts_at ELSE TRUE
      hasEnded   == IF poll.ends_at # NULL THEN t >= poll.ends_at ELSE FALSE
  IN  IF ~hasStarted THEN [active |-> FALSE, status |-> "not-started"]
      ELSE IF hasEnded THEN [active |-> FALSE, status |-> "ended"]
      ELSE [active |-> TRUE, status |-> "active"]

getPollStatus(poll, t) ==
  LET hasStarted == IF poll.starts_at # NULL THEN t >= poll.starts_at ELSE TRUE
      hasEnded   == IF poll.ends_at # NULL THEN t > poll.ends_at ELSE FALSE
  IN  IF ~hasStarted THEN [active |-> FALSE, status |-> "not-started"]
      ELSE IF hasEnded THEN [active |-> FALSE, status |-> "ended"]
      ELSE [active |-> TRUE, status |-> "active"]

\* ------------------------------------------------------ requests in flight
\* What a handler returned: ok, the message, the HTTP status (0 for a server
\* action, which has none), the value a read returned (NULL when none) and
\* the fields a validation error names.
Res(ok, msg, code, value) ==
  [ok |-> ok, msg |-> msg, code |-> code, value |-> value, errors |-> {}]
NoRes == Res(FALSE, "", 0, NULL)

\* A request holds its position (pc), the handler (op), the session user, the
\* poll and option identifiers it was given, the poll form it was given (args)
\* and the rows it has read (local).
NoArgs == <<>>
Idle == [pc |-> "idle", op |-> "none", user |-> NoUser, poll |-> BadId,
         option |-> BadId, res |-> NoRes, args |-> NoArgs, local |-> {}]

\* A request p that has returned r.
Return(p, op, u, pollId, optionId, r) ==
  proc' = [proc EXCEPT ![p] = [pc |-> "done", op |-> op, user |-> u,
                               poll |-> pollId, option |-> optionId, res |-> r,
                               args |-> NoArgs, local |-> {}]]

\* A request p suspended at its next storage call.
Await(p, pc, op, u, pollId, optionId) ==
  proc' = [proc EXCEPT ![p] = [pc |-> pc, op |-> op, user |-> u,
                               poll |-> pollId, option |-> optionId, res |-> NoRes,
                               args |-> NoArgs, local |-> {}]]

Free(p) == proc[p].pc \in {"idle", "done"}

MyVotes(u, pollId) == {v \in votes : v.user_id = u /\ v.poll_id = pollId}
PollRows(pollId)   == {q \in polls : q.id = pollId}

\* The message PostgreSQL / PostgREST attaches to an error code.
PgMessage(code) ==
  CASE code = "23505" -> "duplicate key value violates unique constraint"
    [] code = "23503" -> "insert or update violates foreign key constraint"
    [] code = "42501" -> "new row violates row-level security policy"
    [] OTHER          -> "JSON object requested, multiple (or no) rows returned"

\* ------------------------------------------------- server action: castVote
\* The two timing tests castVote makes on the poll row it has read.
castVoteTiming(pollData, t) ==
  IF pollData.starts_at # NULL /\ t < pollData.starts_at THEN "not-started"
  ELSE IF pollData.ends_at # NULL /\ t > pollData.ends_at THEN "ended"
  ELSE "ok"

\* castVote up to its first storage call: session, form validation and the
\* select of an existing vote of the user in the poll.
CastVoteCheck(p, u, pollId, optionId) ==
  /\ Free(p)
  /\ UNCHANGED <<polls, options, votes, now, out, nextId, form>>
  /\ IF u = NoUser
     THEN Return(p, "castVote", u, pollId, optionId,
                 Res(FALSE, "User not authenticated.", 0, NULL))
     ELSE IF castVoteFormSchema(optionId, pollId) # {}
     THEN Return(p, "castVote", u, pollId, optionId,
                 [Res(FALSE, "Missing Fields. Failed to cast vote.", 0, NULL)
                    EXCEPT !.errors = castVoteFormSchema(optionId, pollId)])
     ELSE LET existing == Single(MyVotes(u, pollId)) IN
          IF existing.error # NoError /\ existing.error # "PGRST116"
          THEN Return(p, "castVote", u, pollId, optionId,
                      Res(FALSE, PgMessage(existing.error), 0, NULL))
          ELSE IF existing.data # {}
          THEN Return(p, "castVote", u, pollId, optionId,
                      Res(FALSE, "You have already voted in this poll.", 0, NULL))
          ELSE Await(p, "cast_poll", "castVote", u, pollId, optionId)

\* castVote's select of the poll row and its timing tests against new Date().
CastVotePoll(p) ==
  /\ proc[p].pc = "cast_poll"
  /\ UNCHANGED <<polls, options, votes, now, out, nextId, form>>
  /\ LET c == proc[p]
         pollData == Single(PollRows(c.poll))
     IN  IF pollData.error # NoError \/ pollData.data = {}
         THEN Return(p, "castVote", c.user, c.poll, c.option,
                     Res(FALSE, "Poll not found.", 0, NULL))
         ELSE LET row == CHOOSE q \in pollData.data : TRUE
                  timing == castVoteTiming(row, now)
              IN  IF timing = "not-started"
                  THEN Return(p, "castVote", c.user, c.poll, c.option,
                              Res(FALSE, "This poll has not started yet.", 0, NULL))
                  ELSE IF timing = "ended"
                  THEN Return(p, "castVote", c.user, c.poll, c.option,
                              Res(FALSE, "This poll has already ended.", 0, NULL))
                  ELSE Await(p, "cast_insert", "castVote", c.user, c.poll, c.option)

\* castVote's insert into votes.
CastVoteInsert(p) ==
  /\ proc[p].pc = "cast_insert"
  /\ UNCHANGED <<polls, options, now, out, nextId, form>>
  /\ LET c == proc[p]
         row == [option_id |-> c.option, user_id |-> c.user, poll_id |-> c.poll]
         error == VotesInsertError(row)
     IN  IF error # NoError
         THEN /\ votes' = votes
              /\ Return(p, "castVote", c.user, c.poll, c.option,
                        Res(FALSE, PgMessage(error), 0, NULL))
         ELSE /\ Cardinality(votes) < MaxVotes
              /\ votes' = votes \cup {row}
              /\ Return(p, "castVote", c.user, c.poll, c.option,
                        Res(TRUE, "Vote cast successfully!", 0, NULL))

\* ----------------------------------- server actions: removeVote, changeVote
\* removeVote's test that the poll it has read has ended.
removeVoteEnded_strictless(pollData, t) == pollData.ends_at # NULL /\ t >= pollData.ends_at

removeVoteEnded(pollData, t) == pollData.ends_at # NULL /\ t > pollData.ends_at

\* removeVote up to its delete: session, select of the poll row, end test.
RemoveVoteCheck(p, u, pollId) ==
  /\ Free(p)
  /\ UNCHANGED <<polls, options, votes, now, out, nextId, form>>
  /\ IF u = NoUser
     THEN Return(p, "removeVote", u, pollId, BadId,
                 Res(FALSE, "User not authenticated.", 0, NULL))
     ELSE LET pollData == Single(PollRows(pollId)) IN
          IF pollData.error # NoError \/ pollData.data = {}
          THEN Return(p, "removeVote", u, pollId, BadId,
                      Res(FALSE, "Poll not found.", 0, NULL))
          ELSE LET row == CHOOSE q \in pollData.data : TRUE IN
               IF removeVoteEnded(row, now)
               THEN Return(p, "removeVote", u, pollId, BadId,
                           Res(FALSE, "Cannot change vote after poll has ended.", 0, NULL))
               ELSE Await(p, "remove_delete", "removeVote", u, pollId, BadId)

\* The delete without the filter on poll_id.
VotesDelete_everyPoll(u, pollId) ==
  {v \in votes : v.user_id = u /\ VotesPolicy("DELETE", u, v)}

\* The rows a delete of (user_id, poll_id) removes under the DELETE policy.
VotesDelete(u, pollId) == {v \in MyVotes(u, pollId) : VotesPolicy("DELETE", u, v)}

\* removeVote's delete.
RemoveVoteDelete(p) ==
  /\ proc[p].pc = "remove_delete"
  /\ UNCHANGED <<polls, options, now, out, nextId, form>>
  /\ LET c == proc[p] IN
     /\ votes' = votes \ VotesDelete(c.user, c.poll)
     /\ Return(p, "removeVote", c.user, c.poll, BadId,
               Res(TRUE, "Vote removed successfully!", 0, NULL))

\* update votes set option_id = newOptionId where user_id = u and poll_id =
\* pollId: the rows the UPDATE policy lets through, the error the statement
\* raises (foreign key, uniqueness) and the table it leaves.
VotesUpdate(u, pollId, newOptionId) ==
  LET target  == {v \in MyVotes(u, pollId) : VotesPolicy("UPDATE", u, v)}
      updated == {[v EXCEPT !.option_id = newOptionId] : v \in target}
      rest    == votes \ target
      error   == IF target = {} THEN NoError
                 ELSE IF ~\E o \in options : o.id = newOptionId THEN "23503"
                 ELSE IF \/ Cardinality(target) > 1
                         \/ \E v \in rest : v.option_id = newOptionId /\ v.user_id = u
                      THEN "23505"
                 ELSE NoError
  IN  [error |-> error, votes |-> IF error = NoError THEN rest \cup updated ELSE votes]

\* changeVote's test that the poll it has read has ended.
changeVoteEnded(pollData, t) == pollData.ends_at # NULL /\ t > pollData.ends_at

\* changeVote up to its update: session, select of the poll row, end test.
ChangeVoteCheck(p, u, pollId, newOptionId) ==
  /\ Free(p)
  /\ UNCHANGED <<polls, options, votes, now, out, nextId, form>>
  /\ IF u = NoUser
     THEN Return(p, "changeVote", u, pollId, newOptionId,
                 Res(FALSE, "User not authenticated.", 0, NULL))
     ELSE LET pollData == Single(PollRows(pollId)) IN
          IF pollData.error # NoError \/ pollData.data = {}
          THEN Return(p, "changeVote", u, pollId, newOptionId,
                      Res(FALSE, "Poll not found.", 0, NULL))
          ELSE LET row == CHOOSE q \in pollData.data : TRUE IN
               IF changeVoteEnded(row, now)
               THEN Return(p, "changeVote", u, pollId, newOptionId,
                           Res(FALSE, "Cannot change vote after poll has ended.", 0, NULL))
               ELSE Await(p, "change_update", "changeVote", u, pollId, newOptionId)

\* changeVote's update.
ChangeVoteUpdate(p) ==
  /\ proc[p].pc = "change_update"
  /\ UNCHANGED <<polls, options, now, out, nextId, form>>
  /\ LET c == proc[p]
         upd == VotesUpdate(c.user, c.poll, c.option)
     IN  /\ votes' = upd.votes
         /\ Return(p, "changeVote", c.user, c.poll, c.option,
                   IF upd.error # NoError
                   THEN Res(FALSE, PgMessage(upd.error), 0, NULL)
                   ELSE Res(TRUE, "Vote changed successfully!", 0, NULL))

\* ---------------------------------- server actions: hasUserVoted, getUserVote
\* hasUserVoted's answer for the effective user u (NoUser: no userId argument
\* and no session).
hasUserVoted(u, pollId) ==
  IF u = NoUser THEN FALSE
  ELSE LET vote == Single(MyVotes(u, pollId)) IN
       IF vote.error # NoError /\ vote.error # "PGRST116" THEN FALSE
       ELSE vote.data # {}

\* getUserVote's answer: the option id, or NULL.
getUserVote(u, pollId) ==
  IF u = NoUser THEN NULL
  ELSE LET vote == Single(MyVotes(u, pollId)) IN
       IF vote.error # NoError /\ vote.error # "PGRST116" THEN NULL
       ELSE IF vote.data = {} THEN NULL
       ELSE (CHOOSE v \in vote.data : TRUE).option_id

HasUserVoted(p, u, pollId) ==
  /\ Free(p)
  /\ UNCHANGED <<polls, options, votes, now, out, nextId, form>>
  /\ Return(p, "hasUserVoted", u, pollId, BadId,
            Res(hasUserVoted(u, pollId), "", 0, NULL))

GetUserVote(p, u, pollId) ==
  /\ Free(p)
  /\ UNCHANGED <<polls, options, votes, now, out, nextId, form>>
  /\ Return(p, "getUserVote", u, pollId, BadId,
            Res(getUserVote(u, pollId) # NULL, "", 0, getUserVote(u, pollId)))

\* ------------------------------------------- HTTP /api/polls/{id}/vote
\* Each handler is one storage call; an ActionError thrown by
\* getAuthenticatedContext lands in the handler's catch-all, which answers 500
\* with the error's message.
VoteGET(p, u, pollId) ==
  /\ Free(p)
  /\ UNCHANGED <<polls, options, votes, now, out, nextId, form>>
  /\ IF u = NoUser
     THEN Return(p, "GET", u, pollId, BadId,
                 Res(FALSE, "Authentication required", 500, NULL))
     ELSE LET vote == Single(MyVotes(u, pollId)) IN
          IF vote.error # NoError /\ vote.error # "PGRST116"
          THEN Return(p, "GET", u, pollId, BadId,
                      Res(FALSE, PgMessage(vote.error), 500, NULL))
          ELSE IF vote.data = {}
          THEN Return(p, "GET", u, pollId, BadId,
                      Res(FALSE, "Vote not found", 404, NULL))
          ELSE Return(p, "GET", u, pollId, BadId,
                      Res(TRUE, "", 200, (CHOOSE v \in vote.data : TRUE).option_id))

VotePOST(p, u, pollId, optionId) ==
  /\ Free(p)
  /\ UNCHANGED <<polls, options, now, out, nextId, form>>
  /\ IF u = NoUser
     THEN /\ votes' = votes
          /\ Return(p, "POST", u, pollId, optionId,
                    Res(FALSE, "Authentication required", 500, NULL))
     ELSE IF castVoteFormSchema(optionId, pollId) # {}
     THEN /\ votes' = votes
          /\ Return(p, "POST", u, pollId, optionId,
                    [Res(FALSE, "", 400, NULL)
                       EXCEPT !.errors = castVoteFormSchema(optionId, pollId)])
     ELSE LET row == [option_id |-> optionId, user_id |-> u, poll_id |-> pollId]
              error == VotesInsertError(row)
          IN  IF error # NoError
              THEN /\ votes' = votes
                   /\ Return(p, "POST", u, pollId, optionId,
                             Res(FALSE, PgMessage(error), 500, NULL))
              ELSE /\ Cardinality(votes) < MaxVotes
                   /\ votes' = votes \cup {row}
                   /\ Return(p, "POST", u, pollId, optionId,
                             Res(TRUE, "Vote cast successfully", 200, NULL))

VotePUT(p, u, pollId, newOptionId) ==
  /\ Free(p)
  /\ UNCHANGED <<polls, options, now, out, nextId, form>>
  /\ IF u = NoUser
     THEN /\ votes' = votes
          /\ Return(p, "PUT", u, pollId, newOptionId,
                    Res(FALSE, "Authentication required", 500, NULL))
     ELSE LET upd == VotesUpdate(u, pollId, newOptionId) IN
          /\ votes' = upd.votes
          /\ Return(p, "PUT", u, pollId, newOptionId,
                    IF upd.error # NoError
                    THEN Res(FALSE, PgMessage(upd.error), 500, NULL)
                    ELSE Res(TRUE, "Vote changed successfully", 200, NULL))

VoteDELETE(p, u, pollId) ==
  /\ Free(p)
  /\ UNCHANGED <<polls, options, now, out, nextId, form>>
  /\ IF u = NoUser
     THEN /\ votes' = votes
          /\ Return(p, "DELETE", u, pollId, BadId,
                    Res(FALSE, "Authentication required", 500, NULL))
     ELSE /\ votes' = votes \ VotesDelete(u, pollId)
          /\ Return(p, "DELETE", u, pollId, BadId,
                    Res(TRUE, "Vote removed successfully", 200, NULL))

\* ------------------------------------------------------------------ clock
Tick ==
  /\ now < MaxTime
  /\ now' = now + 1
  /\ UNCHANGED <<polls, options, votes, proc, out, nextId, form>>

\* -------------------------------------------------------- voting: the system
\* Text is a sequence of characters.
QFavorite == <<"C", "o", "l", "o", "r", "?">>
QSecond   == <<"L", "u", "n", "c", "h", "?">>

AbsentId == 99     \* a UUID-shaped identifier no row carries

\* Two polls as createPoll leaves them: poll 1 open over [1, 2], poll 2 with
\* no window; two options each; no votes yet.
VotePolls ==
  { [id |-> 1, user_id |-> 1, question |-> QFavorite, starts_at |-> 1,
     ends_at |-> 2, archived |-> FALSE],
    [id |-> 2, user_id |-> 2, question |-> QSecond, starts_at |-> NULL,
     ends_at |-> NULL, archived |-> FALSE] }

VoteOptions ==
  { [id |-> 1, poll_id |-> 1, value |-> "Red"],
    [id |-> 2, poll_id |-> 1, value |-> "Blue"],
    [id |-> 3, poll_id |-> 2, value |-> "Soup"],
    [id |-> 4, poll_id |-> 2, value |-> "Rice"] }

Sessions   == Users \cup {NoUser}
PollArgs   == {q.id : q \in VotePolls}
OptionArgs == {o.id : o \in VoteOptions}

InitVote ==
  /\ polls = VotePolls
  /\ options = VoteOptions
  /\ votes = {}
  /\ now = 0
  /\ proc = [p \in Procs |-> Idle]
  /\ out = NoRes
  /\ nextId = 5
  /\ form = NoArgs

\* The multi-step handlers' later steps, for request p.
VoteStep(p) ==
  \/ CastVotePoll(p)
  \/ CastVoteInsert(p)
  \/ RemoveVoteDelete(p)
  \/ ChangeVoteUpdate(p)

\* Two signed-in requests at a time, writing the votes of poll 1.
NextVote ==
  \/ \E p \in Procs, u \in Users, optionId \in {1, 2} :
       \/ CastVoteCheck(p, u, 1, optionId)
       \/ VotePOST(p, u, 1, optionId)
       \/ ChangeVoteCheck(p, u, 1, optionId)
       \/ VotePUT(p, u, 1, optionId)
  \/ \E p \in Procs, u \in Users :
       \/ RemoveVoteCheck(p, u, 1)
       \/ VoteDELETE(p, u, 1)
  \/ \E p \in Procs : VoteStep(p)
  \/ Tick

SpecVote == InitVote /\ [][NextVote]_vars

\* One request at a time, over both polls, with absent and malformed
\* identifiers and with no session.
SeqOptions == {1, 2, 3}

NextSeq ==
  \/ \E u \in Sessions, pollId \in PollArgs \cup {AbsentId, BadId},
        optionId \in SeqOptions \cup {AbsentId} :
       CastVoteCheck(1, u, pollId, optionId)
  \/ \E u \in Sessions, pollId \in PollArgs \cup {BadId}, optionId \in SeqOptions :
       VotePOST(1, u, pollId, optionId)
  \/ \E u \in Sessions, pollId \in PollArgs \cup {AbsentId}, optionId \in SeqOptions :
       ChangeVoteCheck(1, u, pollId, optionId)
  \/ \E u \in Sessions, pollId \in PollArgs, optionId \in SeqOptions :
       VotePUT(1, u, pollId, optionId)
  \/ \E u \in Sessions, pollId \in PollArgs \cup {AbsentId} :
       RemoveVoteCheck(1, u, pollId)
  \/ \E u \in Sessions, pollId \in PollArgs :
       \/ VoteDELETE(1, u, pollId)
       \/ VoteGET(1, u, pollId)
       \/ HasUserVoted(1, u, pollId)
       \/ GetUserVote(1, u, pollId)
  \/ VoteStep(1)
  \/ Tick

SpecSeq == InitVote /\ [][NextSeq]_vars

\* Concurrent castVote requests on poll 1 and nothing else.
NextRace ==
  \/ \E p \in Procs, u \in Users, optionId \in {1, 2} :
       CastVoteCheck(p, u, 1, optionId)
  \/ \E p \in Procs : CastVotePoll(p) \/ CastVoteInsert(p)
  \/ Tick

SpecRace == InitVote /\ [][NextRace]_vars

TypeOKVote ==
  votes \subseteq [option_id : OptionArgs, user_id : Users, poll_id : PollArgs]

\* ------------------------------------------------------- voting: properties
\* Request p has just run the first step of the handler op.
Called(p, op) == Free(p) /\ proc'[p] # proc[p] /\ proc'[p].op = op

\* The poll row with identifier pollId (there is one).
PollRow(pollId) == CHOOSE q \in polls : q.id = pollId

\* C1: at most one vote row exists for each (user, poll) pair, through every
\* entry point and under every interleaving.
OneVotePerUserPoll ==
  \A u \in Users, pollId \in PollArgs : Cardinality(MyVotes(u, pollId)) <= 1

\* C2: of the castVote requests of one user on one poll that race, only one
\* returns success.
CastRaceOneWinner ==
  \A p, q \in Procs :
    (/\ p # q
     /\ proc[p].pc = "done" /\ proc[q].pc = "done"
     /\ proc[p].op = "castVote" /\ proc[q].op = "castVote"
     /\ proc[p].user = proc[q].user /\ proc[p].poll = proc[q].poll)
    => ~(proc[p].res.ok /\ proc[q].res.ok)

\* C3: castVote by a user who has a vote row in the poll returns "You have
\* already voted in this poll." whatever the poll's status, and leaves the
\* votes table unchanged.
CastAlreadyVoted ==
  [][\A p \in Procs :
       (Called(p, "castVote") /\ MyVotes(proc'[p].user, proc'[p].poll) # {})
       => /\ proc'[p].pc = "done"
          /\ proc'[p].res.msg = "You have already voted in this poll."
          /\ votes' = votes]_vars

\* C4: castVote inserts only for a poll whose status is active at its check,
\* answers the not-started / ended errors otherwise and inserts nothing; for
\* an active poll, an option of that poll and a user with no vote in the poll
\* it inserts exactly the row (user, poll, option) and returns success.
CastVoteGate ==
  [][\A p \in Procs :
       LET c == proc[p]
           row == [option_id |-> c.option, user_id |-> c.user, poll_id |-> c.poll]
       IN
       /\ (c.pc = "cast_poll" /\ proc'[p] # c /\ PollRows(c.poll) # {})
          => LET st == getPollStatus(PollRow(c.poll), now).status IN
             /\ votes' = votes
             /\ st = "not-started"
                => proc'[p].pc = "done" /\ proc'[p].res.msg = "This poll has not started yet."
             /\ st = "ended"
                => proc'[p].pc = "done" /\ proc'[p].res.msg = "This poll has already ended."
             /\ st = "active" => proc'[p].pc = "cast_insert"
       /\ (/\ c.pc = "cast_insert" /\ proc'[p] # c
           /\ \E o \in options : o.id = c.option /\ o.poll_id = c.poll
           /\ MyVotes(c.user, c.poll) = {})
          => /\ proc'[p].res.ok
             /\ votes' = votes \cup {row}
             /\ row \notin votes]_vars

\* C5: hasUserVoted is true exactly when a vote row of (user, poll) exists,
\* and getUserVote returns an option in exactly those states, the option of
\* that vote.
ReadsAgree ==
  \A p \in Procs :
    LET c == proc[p] IN
    /\ (c.pc = "done" /\ c.op = "hasUserVoted")
       => (c.res.ok <=> MyVotes(c.user, c.poll) # {})
    /\ (c.pc = "done" /\ c.op = "getUserVote")
       => /\ (c.res.value # NULL) <=> MyVotes(c.user, c.poll) # {}
          /\ c.res.value # NULL
             => \E v \in MyVotes(c.user, c.poll) : v.option_id = c.res.value

\* C7: removeVote answers "Cannot change vote after poll has ended." and
\* leaves the votes alone exactly when the poll's status is ended; in every
\* other status it goes on to delete the user's votes in the poll, whether or
\* not there are any, and returns success.
RemoveVoteContract ==
  [][\A p \in Procs :
       /\ (Called(p, "removeVote") /\ PollRows(proc'[p].poll) # {}
             /\ proc'[p].user # NoUser)
          => LET c == proc'[p]
                 st == getPollStatus(PollRow(c.poll), now).status
             IN  /\ votes' = votes
                 /\ IF st = "ended"
                    THEN /\ c.pc = "done"
                         /\ c.res.msg = "Cannot change vote after poll has ended."
                         /\ ~c.res.ok
                    ELSE c.pc = "remove_delete"
       /\ (proc[p].pc = "remove_delete" /\ proc'[p] # proc[p])
          => LET c == proc[p] IN
             /\ proc'[p].pc = "done" /\ proc'[p].res.ok
             /\ votes' = votes \ MyVotes(c.user, c.poll)]_vars

\* removeVote has refused on an ended poll, the user's vote still in place.
RemoveRefusedWitness ==
  \E p \in Procs :
    /\ proc[p].pc = "done" /\ proc[p].op = "removeVote"
    /\ proc[p].res.msg = "Cannot change vote after poll has ended."
    /\ MyVotes(proc[p].user, proc[p].poll) # {}

\* C8: changeVote fails when the poll has ended, fails and creates nothing
\* when the user has no vote in the poll, and otherwise sets the option of
\* the user's vote, the number of rows unchanged.
ChangeVoteContract ==
  [][\A p \in Procs :
       /\ (Called(p, "changeVote") /\ PollRows(proc'[p].poll) # {}
             /\ proc'[p].user # NoUser)
          => LET c == proc'[p]
                 st == getPollStatus(PollRow(c.poll), now).status
             IN  /\ votes' = votes
                 /\ st = "ended" => (c.pc = "done" /\ ~c.res.ok)
       /\ (proc[p].pc = "change_update" /\ proc'[p] # proc[p])
          => LET c == proc[p] IN
             IF MyVotes(c.user, c.poll) = {}
             THEN ~proc'[p].res.ok /\ votes' = votes
             ELSE /\ proc'[p].res.ok
                  /\ Cardinality(votes') = Cardinality(votes)
                  /\ \A v \in MyVotes(c.user, c.poll)' : v.option_id = c.option]_vars

\* ------------------------------------------------- lifecycle status: system
\* Every well-formed window: each end set or unset, start before end when
\* both are set.
Stamp == Time \cup {NULL}
Windows ==
  {w \in [starts_at : Stamp, ends_at : Stamp] :
      (w.starts_at # NULL /\ w.ends_at # NULL) => w.starts_at < w.ends_at}

NoStatus == [starts_at |-> NULL, ends_at |-> NULL, now |-> NULL, status |-> "none",
             active |-> FALSE, isPollActive |-> FALSE]

\* One stored poll with any well-formed window, read at any instant.
InitStatus ==
  /\ \E w \in Windows :
       polls = {[id |-> 1, user_id |-> 1, question |-> QFavorite,
                 starts_at |-> w.starts_at, ends_at |-> w.ends_at,
                 archived |-> FALSE]}
  /\ options = {[id |-> 2, poll_id |-> 1, value |-> "Red"],
                [id |-> 3, poll_id |-> 1, value |-> "Blue"]}
  /\ votes = {}
  /\ now \in Time
  /\ proc = [p \in Procs |-> Idle]
  /\ out = NoStatus
  /\ nextId = 4
  /\ form = NoArgs

\* getPollStatus(poll) and isPollActive(poll) evaluated at the same instant.
ReadStatus ==
  /\ \E q \in polls :
       out' = [starts_at |-> q.starts_at, ends_at |-> q.ends_at, now |-> now,
               status |-> getPollStatus(q, now).status,
               active |-> getPollStatus(q, now).active,
               isPollActive |-> isPollActive(q, now)]
  /\ UNCHANGED <<polls, options, votes, now, proc, nextId, form>>

NextStatus == ReadStatus \/ Tick

SpecStatus == InitStatus /\ [][NextStatus]_vars

\* C6: for every well-formed window and every instant the status is
\* not-started iff start is set and now < start, ended iff end is set and
\* now > end, active otherwise, and isPollActive holds iff it is active.
StatusExhaustiveExclusive ==
  out.status # "none" =>
    LET notStarted == out.starts_at # NULL /\ out.now < out.starts_at
        ended      == out.ends_at # NULL /\ out.now > out.ends_at
    IN  /\ out.status \in {"not-started", "active", "ended"}
        /\ out.status = "not-started" <=> notStarted
        /\ out.status = "ended" <=> ended
        /\ out.status = "active" <=> (~notStarted /\ ~ended)
        /\ out.isPollActive <=> out.status = "active"
        /\ out.active <=> out.status = "active"

\* The status was read at the very instant the poll ends and is still active.
StatusAtEndWitness ==
  /\ out.status = "active"
  /\ out.ends_at # NULL /\ out.now = out.ends_at
  /\ out.starts_at # NULL

\* ========================================================= poll management
MaxId      == 9    \* identifiers gen_random_uuid() hands out: 1..MaxId
MaxOptions == 2    \* entries in a submitted option list

\* Row-level-security policies of public.polls: everyone reads, a user
\* inserts, updates and deletes rows that carry their own user_id.
PollsPolicy(cmd, uid, row) ==
  IF cmd = "SELECT" THEN TRUE ELSE uid # NoUser /\ uid = row.user_id

\* Policies of public.options: everyone reads; insert, update and delete need
\* the option's poll to exist and to belong to the caller.
OptionsPolicy(cmd, uid, row) ==
  IF cmd = "SELECT" THEN TRUE
  ELSE \E q \in polls : q.id = row.poll_id /\ q.user_id = uid /\ uid # NoUser

\* createPollFormSchema's refinement of the option list: no two entries carry
\* the same value.  The schema of earlier revisions had no such refinement.
optionsUnique_unrefined(opts) == TRUE
optionsUnique(opts) ==
  Cardinality({opts[i] : i \in 1..Len(opts)}) = Len(opts)

\* createPollFormSchema's refinement of the whole form: when both stamps are
\* given, the end is after the start.
endsAfterStart_orEqual(data) ==
  (data.starts_at # NULL /\ data.ends_at # NULL) => data.ends_at >= data.starts_at
endsAfterStart(data) ==
  (data.starts_at # NULL /\ data.ends_at # NULL) => data.ends_at > data.starts_at

\* createPollFormSchema: the form fields its issues are attached to.  The
\* length checks do not abort the parse, so every refinement runs and a field
\* is named whenever one of its checks fails, whatever the other fields hold.
createPollFormSchema(values) ==
  LET opts == values.options
  IN  {f \in {"question", "options", "ends_at"} :
         \/ f = "question" /\ Len(values.question) < 5
         \/ f = "options" /\ (\/ Len(opts) < 2
                              \/ \E i \in 1..Len(opts) : opts[i] = ""
                              \/ ~optionsUnique(opts))
         \/ f = "ends_at" /\ ~endsAfterStart(values)}

\* A request rejected before storage: it returns r; the form it was given
\* stays on record.
Reject(p, op, u, pollId, values, r) ==
  proc' = [proc EXCEPT ![p] = [pc |-> "done", op |-> op, user |-> u,
                               poll |-> pollId, option |-> BadId, res |-> r,
                               args |-> values, local |-> {}]]

\* A request suspended at its next storage call, holding its validated form
\* and the rows it has read.
Hold(p, pc, op, u, pollId, values, rows) ==
  proc' = [proc EXCEPT ![p] = [pc |-> pc, op |-> op, user |-> u,
                               poll |-> pollId, option |-> BadId, res |-> NoRes,
                               args |-> values, local |-> rows]]

\* What validatePollInput and getAuthenticatedContext throw, as the server
\* action surfaces it (api = "action") or as the route answers it ("http").
ValidationFailed(api, values) ==
  [Res(FALSE, "Validation failed", IF api = "http" THEN 400 ELSE 0, NULL)
     EXCEPT !.errors = createPollFormSchema(values)]
AuthRequired == Res(FALSE, "Authentication required", 401, NULL)

\* The outcome of the checks made before any storage call: the server action
\* validates and then authenticates, the route authenticates and then
\* validates.  NoRes when both pass.
Precheck(api, u, values) ==
  IF api = "http"
  THEN IF u = NoUser THEN AuthRequired
       ELSE IF createPollFormSchema(values) # {} THEN ValidationFailed(api, values)
       ELSE NoRes
  ELSE IF createPollFormSchema(values) # {} THEN ValidationFailed(api, values)
       ELSE IF u = NoUser THEN AuthRequired
       ELSE NoRes

CreateOp(api) == IF api = "http" THEN "POST /polls" ELSE "createPoll"
EditOp(api)   == IF api = "http" THEN "PUT /polls/id" ELSE "editPoll"

\* createPoll / POST /api/polls up to db_insertPoll.
CreatePollInsert(p, api, u, values) ==
  /\ Free(p)
  /\ UNCHANGED <<options, votes, now, out, form>>
  /\ IF Precheck(api, u, values) # NoRes
     THEN /\ Reject(p, CreateOp(api), u, BadId, values, Precheck(api, u, values))
          /\ UNCHANGED <<polls, nextId>>
     ELSE LET row == [id |-> nextId, user_id |-> u, question |-> values.question,
                      starts_at |-> values.starts_at, ends_at |-> values.ends_at,
                      archived |-> FALSE]
          IN  /\ nextId + Len(values.options) <= MaxId
              /\ PollsPolicy("INSERT", u, row)
              /\ polls' = polls \cup {row}
              /\ nextId' = nextId + 1
              /\ Hold(p, "create_options", CreateOp(api), u, row.id, values, {})

\* The option rows an insert of the values vs for poll pollId creates.
NewOptions(pollId, vs) ==
  {[id |-> nextId + i - 1, poll_id |-> pollId, value |-> vs[i]] : i \in 1..Len(vs)}

\* The error an insert into options raises, or NoError.
OptionsInsertError(uid, rows) ==
  IF \E o \in rows : ~OptionsPolicy("INSERT", uid, o) THEN "42501" ELSE NoError

\* The delete without the filter on user_id and without the policy.
PollsDelete_anyCaller(uid, pollId) ==
  LET gone  == {q \in polls : q.id = pollId}
      ids   == {q.id : q \in gone}
      oGone == {o \in options : o.poll_id \in ids}
  IN  [polls |-> polls \ gone,
       options |-> options \ oGone,
       votes |-> {v \in votes : v.option_id \notin {o.id : o \in oGone}}]

\* delete from polls where id = pollId (and user_id = owner when given), with
\* the cascade to options and from options to votes.
PollsDelete(uid, pollId) ==
  LET gone  == {q \in polls : q.id = pollId /\ PollsPolicy("DELETE", uid, q)}
      ids   == {q.id : q \in gone}
      oGone == {o \in options : o.poll_id \in ids}
  IN  [polls |-> polls \ gone,
       options |-> options \ oGone,
       votes |-> {v \in votes : v.option_id \notin {o.id : o \in oGone}}]

\* db_insertOptions: the insert, and the clean-up of the poll when it fails.
CreatePollOptions(p) ==
  /\ proc[p].pc = "create_options"
  /\ UNCHANGED <<now, out, form>>
  /\ LET c == proc[p]
         rows == NewOptions(c.poll, c.args.options)
         error == OptionsInsertError(c.user, rows)
         http == c.op = "POST /polls"
     IN  IF error # NoError
         THEN LET del == PollsDelete(c.user, c.poll) IN
              /\ polls' = del.polls /\ options' = del.options /\ votes' = del.votes
              /\ nextId' = nextId
              /\ Return(p, c.op, c.user, c.poll, BadId,
                        Res(FALSE, "Failed to create poll options.", 500, NULL))
         ELSE /\ options' = options \cup rows
              /\ nextId' = nextId + Len(c.args.options)
              /\ UNCHANGED <<polls, votes>>
              /\ Return(p, c.op, c.user, c.poll, BadId,
                        Res(TRUE, "", IF http THEN 201 ELSE 0, c.poll))

\* db_updatePollDetails: update polls ... where id = pollId and user_id = uid.
PollsUpdate(uid, pollId, values) ==
  {IF q.id = pollId /\ q.user_id = uid /\ PollsPolicy("UPDATE", uid, q)
   THEN [q EXCEPT !.question = values.question,
                  !.starts_at = values.starts_at,
                  !.ends_at = values.ends_at]
   ELSE q : q \in polls}

\* editPoll / PUT /api/polls/{id} up to db_updatePollDetails.
EditPollUpdate(p, api, u, pollId, values) ==
  /\ Free(p)
  /\ UNCHANGED <<options, votes, now, out, nextId, form>>
  /\ IF Precheck(api, u, values) # NoRes
     THEN /\ Reject(p, EditOp(api), u, pollId, values, Precheck(api, u, values))
          /\ polls' = polls
     ELSE /\ polls' = PollsUpdate(u, pollId, values)
          /\ Hold(p, "edit_fetch", EditOp(api), u, pollId, values, {})

\* db_updatePollOptions: the submitted values no fetched option carries, in
\* the order submitted, and the fetched options no submitted value names.
toAdd_resubmitted(newOptions, existingOptions) == newOptions
toAdd(newOptions, existingOptions) ==
  SelectSeq(newOptions, LAMBDA v : v \notin {o.value : o \in existingOptions})
toRemove_none(newOptions, existingOptions) == {}
toRemove(newOptions, existingOptions) ==
  {o \in existingOptions :
     o.value \notin {newOptions[i] : i \in 1..Len(newOptions)}}

\* What editPoll / PUT return once db_updatePollOptions is through.
EditDone(p) ==
  LET c == proc[p] IN
  Return(p, c.op, c.user, c.poll, BadId,
         Res(TRUE, "", IF c.op = "PUT /polls/id" THEN 200 ELSE 0, c.poll))

\* db_updatePollOptions: select id, value from options where poll_id = pollId.
EditPollFetch(p) ==
  /\ proc[p].pc = "edit_fetch"
  /\ UNCHANGED <<polls, options, votes, now, out, nextId, form>>
  /\ LET c == proc[p]
         existingOptions == {o \in options : o.poll_id = c.poll}
     IN  IF Len(toAdd(c.args.options, existingOptions)) > 0
         THEN Hold(p, "edit_add", c.op, c.user, c.poll, c.args, existingOptions)
         ELSE IF toRemove(c.args.options, existingOptions) # {}
         THEN Hold(p, "edit_remove", c.op, c.user, c.poll, c.args, existingOptions)
         ELSE EditDone(p)

\* db_updatePollOptions: the insert of the options to add.
EditPollAdd(p) ==
  /\ proc[p].pc = "edit_add"
  /\ UNCHANGED <<polls, votes, now, out, form>>
  /\ LET c == proc[p]
         adding == toAdd(c.args.options, c.local)
         rows == NewOptions(c.poll, adding)
         error == OptionsInsertError(c.user, rows)
     IN  IF error # NoError
         THEN /\ UNCHANGED <<options, nextId>>
              /\ Return(p, c.op, c.user, c.poll, BadId,
                        Res(FALSE, "Failed to add new options.", 500, NULL))
         ELSE /\ nextId + Len(adding) - 1 <= MaxId
              /\ options' = options \cup rows
              /\ nextId' = nextId + Len(adding)
              /\ IF toRemove(c.args.options, c.local) # {}
                 THEN Hold(p, "edit_remove", c.op, c.user, c.poll, c.args, c.local)
                 ELSE EditDone(p)

\* delete from options where id in ids, with the cascade to votes.
OptionsDelete(uid, ids) ==
  LET gone == {o \in options : o.id \in ids /\ OptionsPolicy("DELETE", uid, o)}
  IN  [options |-> options \ gone,
       votes |-> {v \in votes : v.option_id \notin {o.id : o \in gone}}]

\* db_updatePollOptions: the delete of the options to remove.
EditPollRemove(p) ==
  /\ proc[p].pc = "edit_remove"
  /\ UNCHANGED <<polls, now, out, nextId, form>>
  /\ LET c == proc[p]
         del == OptionsDelete(c.user, {o.id : o \in toRemove(c.args.options, c.local)})
     IN  /\ options' = del.options
         /\ votes' = del.votes
         /\ EditDone(p)

\* ------------------------------------------------ poll management: the system
QShort == <<"W", "h", "y", "?">>
QFive  == <<"W", "h", "o", "m", "?">>

Questions    == {QShort, QFive}
OptionValues == {"", "A", "B"}
OptionLists  ==
  UNION {[1..n -> OptionValues] : n \in 0..MaxOptions}
FormStamps   == {NULL, 1, 2}

\* The poll forms a client can submit.
Forms ==
  [question : Questions, options : OptionLists,
   starts_at : FormStamps, ends_at : FormStamps]

\* The windows a stored poll can carry: those a form can give it.
FormWindows ==
  {w \in [starts_at : FormStamps, ends_at : FormStamps] :
     w.starts_at = NULL \/ w.ends_at = NULL \/ w.starts_at < w.ends_at}

\* The two sample polls, the first with any window a form can have given it,
\* one vote on an option of the first, and a client holding a filled-in form.
InitManage ==
  /\ \E w \in FormWindows :
       polls = {IF q.id = 1
                THEN [q EXCEPT !.starts_at = w.starts_at, !.ends_at = w.ends_at]
                ELSE q : q \in VotePolls}
  /\ options = VoteOptions
  /\ votes = {[option_id |-> 1, user_id |-> 2, poll_id |-> 1]}
  /\ now = 0
  /\ proc = [p \in Procs |-> Idle]
  /\ out = NoRes
  /\ nextId = 5
  /\ form \in Forms

\* The client submits its form, through the server actions or the routes, to
\* create a poll or to edit one; requests run one at a time.
NextManage ==
  \/ \E api \in {"action", "http"}, u \in Sessions :
       \/ CreatePollInsert(1, api, u, form)
       \/ \E pollId \in {q.id : q \in polls} \cup {AbsentId} :
            EditPollUpdate(1, api, u, pollId, form)
  \/ CreatePollOptions(1)
  \/ EditPollFetch(1)
  \/ EditPollAdd(1)
  \/ EditPollRemove(1)

SpecManage == InitManage /\ [][NextManage]_vars

\* ---------------------------------------------- poll management: properties
ManageOps == {"createPoll", "editPoll", "POST /polls", "PUT /polls/id"}

\* Request p has just run the first step of createPoll, editPoll, POST
\* /api/polls or PUT /api/polls/{id}; proc'[p].args is the form it was given.
Submitted(p) == Free(p) /\ proc'[p] # proc[p] /\ proc'[p].op \in ManageOps

\* Every stored poll with both stamps set starts before it ends.
WindowsOrdered ==
  \A q \in polls :
    (q.starts_at # NULL /\ q.ends_at # NULL) => q.starts_at < q.ends_at

\* The submitted end is not after the submitted start.
EndNotAfterStart(values) ==
  values.starts_at # NULL /\ values.ends_at # NULL
    /\ values.ends_at <= values.starts_at

\* A submission whose end is not after its start is refused at once with an
\* issue on ends_at and changes no row.  The routes authenticate before they
\* validate, so for them the caller is signed in.
BadWindowRejected ==
  \A p \in Procs :
    (/\ Submitted(p)
     /\ EndNotAfterStart(proc'[p].args)
     /\ proc'[p].op \in {"POST /polls", "PUT /polls/id"} => proc'[p].user # NoUser)
    => /\ proc'[p].pc = "done"
       /\ ~proc'[p].res.ok
       /\ "ends_at" \in proc'[p].res.errors
       /\ UNCHANGED <<polls, options, votes>>

\* C9: whatever creates and edits have run, every stored poll with both
\* stamps set has its start strictly before its end; and a create or an edit
\* whose submitted end is not after its submitted start is rejected with a
\* validation issue on the ends_at field and changes no stored row.
StoredWindowsOrdered == []WindowsOrdered /\ [][BadWindowRejected]_vars

\* An edit through the server action was refused for a form whose end equals
\* its start, while its short question was reported as well.
EqualStampsRefusedWitness ==
  \E p \in Procs :
    /\ proc[p].pc = "done" /\ proc[p].op = "editPoll" /\ proc[p].poll = 1
    /\ proc[p].args # NoArgs
    /\ proc[p].args.starts_at = 2 /\ proc[p].args.ends_at = 2
    /\ proc[p].res.errors = {"question", "ends_at"}

\* The form breaks one of the four rules on question and options.
Malformed(values) ==
  \/ Len(values.question) < 5
  \/ Len(values.options) < 2
  \/ \E i \in 1..Len(values.options) : values.options[i] = ""
  \/ \E i, j \in 1..Len(values.options) :
       i # j /\ values.options[i] = values.options[j]

\* C10: a create or an edit given a question shorter than 5 characters, fewer
\* than 2 options, an empty option value or two equal option values returns a
\* failure from its first step, before any storage call, and a call refused
\* in its first step leaves polls, options and votes as they were.
MalformedRejected ==
  [][\A p \in Procs :
       /\ (Submitted(p) /\ Malformed(proc'[p].args))
            => proc'[p].pc = "done" /\ ~proc'[p].res.ok
       /\ (Submitted(p) /\ proc'[p].pc = "done" /\ ~proc'[p].res.ok)
            => UNCHANGED <<polls, options, votes, nextId>>]_vars

\* A create through the server action was refused for two equal option
\* values under a well-formed question, with the vote and the rows in place.
DuplicateRefusedWitness ==
  \E p \in Procs :
    /\ proc[p].pc = "done" /\ proc[p].op = "createPoll"
    /\ proc[p].args # NoArgs
    /\ proc[p].args.question = QFive
    /\ proc[p].args.options = <<"A", "A">>
    /\ proc[p].res.errors = {"options"}
    /\ votes # {} /\ Cardinality(polls) = 2 /\ Cardinality(options) = 4

\* ================================================ delete, archive, restore
\* A failure thrown as ActionError(msg, code): the server action rethrows it,
\* the route answers it with status code.
Failure(msg, code) == Res(FALSE, msg, code, NULL)

\* What a handler returns on success: the route's status, none for an action.
Success(api, code, value) == Res(TRUE, "", IF api = "http" THEN code ELSE 0, value)

DeleteOp(api)  == IF api = "http" THEN "DELETE /polls/id" ELSE "deletePoll"
ArchiveOp(api) == IF api = "http" THEN "POST /polls/id/archive" ELSE "archivePoll"
RestoreOp(api) == IF api = "http" THEN "POST /polls/id/restore" ELSE "restorePoll"

\* deletePoll / DELETE /api/polls/{id}: delete from polls where id = pollId
\* and user_id = the caller, with the cascades.
DeletePoll(p, api, u, pollId) ==
  /\ Free(p)
  /\ UNCHANGED <<now, out, nextId, form>>
  /\ IF u = NoUser
     THEN /\ UNCHANGED <<polls, options, votes>>
          /\ Return(p, DeleteOp(api), u, pollId, BadId, AuthRequired)
     ELSE LET del == PollsDelete(u, pollId) IN
          /\ polls' = del.polls /\ options' = del.options /\ votes' = del.votes
          /\ Return(p, DeleteOp(api), u, pollId, BadId, Success(api, 204, NULL))

\* The update without the filter on user_id and without the policy.
PollsSetArchived_anyCaller(uid, pollId, flag) ==
  {IF q.id = pollId THEN [q EXCEPT !.archived = flag] ELSE q : q \in polls}

\* update polls set archived = flag where id = pollId and user_id = uid.
PollsSetArchived(uid, pollId, flag) ==
  {IF q.id = pollId /\ q.user_id = uid /\ PollsPolicy("UPDATE", uid, q)
   THEN [q EXCEPT !.archived = flag] ELSE q : q \in polls}

\* archivePoll / POST /api/polls/{id}/archive.
ArchivePoll(p, api, u, pollId) ==
  /\ Free(p)
  /\ UNCHANGED <<options, votes, now, out, nextId, form>>
  /\ IF u = NoUser
     THEN /\ polls' = polls
          /\ Return(p, ArchiveOp(api), u, pollId, BadId, AuthRequired)
     ELSE /\ polls' = PollsSetArchived(u, pollId, TRUE)
          /\ Return(p, ArchiveOp(api), u, pollId, BadId, Success(api, 200, pollId))

\* restorePoll / POST /api/polls/{id}/restore.
RestorePoll(p, api, u, pollId) ==
  /\ Free(p)
  /\ UNCHANGED <<options, votes, now, out, nextId, form>>
  /\ IF u = NoUser
     THEN /\ polls' = polls
          /\ Return(p, RestoreOp(api), u, pollId, BadId, AuthRequired)
     ELSE /\ polls' = PollsSetArchived(u, pollId, FALSE)
          /\ Return(p, RestoreOp(api), u, pollId, BadId, Success(api, 200, pollId))

\* validatePollOwnership with the userId argument ignored.
validatePollOwnership_currentUser(u, pollId, userId) ==
  IF u = NoUser THEN FALSE
  ELSE LET poll == Single(PollRows(pollId))
       IN  IF poll.error # NoError \/ poll.data = {} THEN FALSE
           ELSE (CHOOSE q \in poll.data : TRUE).user_id = u

\* validatePollOwnership(pollId, userId): res.ok is the boolean it returns;
\* userId = NoUser when the argument is omitted.  The option field of the
\* request record keeps userId.
validatePollOwnership(u, pollId, userId) ==
  IF u = NoUser THEN FALSE
  ELSE LET effectiveUserId == IF userId # NoUser THEN userId ELSE u
           poll == Single(PollRows(pollId))
       IN  IF poll.error # NoError \/ poll.data = {} THEN FALSE
           ELSE (CHOOSE q \in poll.data : TRUE).user_id = effectiveUserId

ValidatePollOwnership(p, u, pollId, userId) ==
  /\ Free(p)
  /\ UNCHANGED <<polls, options, votes, now, out, nextId, form>>
  /\ Return(p, "validatePollOwnership", u, pollId, userId,
            Res(validatePollOwnership(u, pollId, userId), "", 0, NULL))

\* ------------------------------------------------------------------ reads
\* The function with the votes counted per poll, not per option.
get_polls_with_details_perPoll(p_poll_id, p_user_id) ==
  {[id |-> q.id, question |-> q.question, starts_at |-> q.starts_at,
    ends_at |-> q.ends_at, user_id |-> q.user_id,
    options |-> {[id |-> o.id, value |-> o.value,
                  vote_count |-> Cardinality({v \in votes : v.poll_id = q.id})]
                 : o \in {x \in options : x.poll_id = q.id}}]
   : q \in {x \in polls : /\ p_poll_id = NULL \/ x.id = p_poll_id
                          /\ p_user_id = NULL \/ x.user_id = p_user_id}}

\* The rows get_polls_with_details returns: each poll that passes the two
\* filters (NULL = not given), with its options and their vote counts.
get_polls_with_details(p_poll_id, p_user_id) ==
  {[id |-> q.id, question |-> q.question, starts_at |-> q.starts_at,
    ends_at |-> q.ends_at, user_id |-> q.user_id,
    options |-> {[id |-> o.id, value |-> o.value,
                  vote_count |-> Cardinality({v \in votes : v.option_id = o.id})]
                 : o \in {x \in options : x.poll_id = q.id}}]
   : q \in {x \in polls : /\ p_poll_id = NULL \/ x.id = p_poll_id
                          /\ p_user_id = NULL \/ x.user_id = p_user_id}}

\* A read that has returned r with the rows it fetched.
ReturnRows(p, op, u, pollId, r, rows) ==
  proc' = [proc EXCEPT ![p] = [pc |-> "done", op |-> op, user |-> u,
                               poll |-> pollId, option |-> BadId, res |-> r,
                               args |-> NoArgs, local |-> rows]]

ListOp(api) == IF api = "http" THEN "GET /polls" ELSE "getPolls"
ShowOp(api) == IF api = "http" THEN "GET /polls/id" ELSE "getPollById"

\* getPolls / GET /api/polls: no session is asked for.
GetPolls(p, api, u) ==
  /\ Free(p)
  /\ UNCHANGED <<polls, options, votes, now, out, nextId, form>>
  /\ ReturnRows(p, ListOp(api), u, BadId, Success(api, 200, NULL),
                get_polls_with_details(NULL, NULL))

\* getPollById / GET /api/polls/{id}: null, or 404, when no row comes back.
GetPollById(p, api, u, pollId) ==
  /\ Free(p)
  /\ UNCHANGED <<polls, options, votes, now, out, nextId, form>>
  /\ LET got == Single(get_polls_with_details(pollId, NULL)) IN
     IF got.error = "PGRST116" \/ got.data = {}
     THEN IF api = "http"
          THEN ReturnRows(p, ShowOp(api), u, pollId,
                          Failure("Poll not found", 404), {})
          ELSE ReturnRows(p, ShowOp(api), u, pollId, Success(api, 200, NULL), {})
     ELSE ReturnRows(p, ShowOp(api), u, pollId, Success(api, 200, pollId), got.data)

\* -------------------------------------------------------------- duplicate
DuplicateOp(api) ==
  IF api = "http" THEN "POST /polls/id/duplicate" ELSE "duplicatePoll"

\* `Copy of ${originalPoll.question}`
CopyOf(question) == <<"C", "o", "p", "y", " ", "o", "f", " ">> \o question

\* The values of the embedded options (value) rows, here in identifier order.
RECURSIVE OptionValuesOf(_)
OptionValuesOf(rows) ==
  IF rows = {} THEN <<>>
  ELSE LET first == CHOOSE o \in rows : \A x \in rows : o.id <= x.id
       IN  <<first.value>> \o OptionValuesOf(rows \ {first})

\* duplicatePoll / POST /api/polls/{id}/duplicate up to the fetch of the
\* original; newQuestion = <<>> when omitted or empty.  The request keeps the
\* row it fetched and, in the shape of a form, the poll it is about to write.
DuplicatePollFetch(p, api, u, pollId, newQuestion) ==
  /\ Free(p)
  /\ UNCHANGED <<polls, options, votes, now, out, nextId, form>>
  /\ IF u = NoUser
     THEN Return(p, DuplicateOp(api), u, pollId, BadId, AuthRequired)
     ELSE LET originalPoll == Single(PollRows(pollId)) IN
          IF originalPoll.error # NoError \/ originalPoll.data = {}
          THEN Return(p, DuplicateOp(api), u, pollId, BadId,
                      Failure("Could not fetch original poll for duplication.", 404))
          ELSE LET q == CHOOSE x \in originalPoll.data : TRUE
                   copy == [question |-> IF newQuestion # <<>> THEN newQuestion
                                         ELSE CopyOf(q.question),
                            options |-> OptionValuesOf({o \in options :
                                                          o.poll_id = pollId}),
                            starts_at |-> NULL, ends_at |-> NULL]
               IN  Hold(p, "dup_insert", DuplicateOp(api), u, pollId, copy,
                        originalPoll.data)

\* What duplicatePoll / the route return for the new poll newId.
DuplicateDone(p, newId) ==
  LET c == proc[p] IN
  Return(p, c.op, c.user, newId, BadId,
         Res(TRUE, "", IF c.op = "POST /polls/id/duplicate" THEN 201 ELSE 0, newId))

\* duplicatePoll's db_insertPoll.
DuplicatePollInsert(p) ==
  /\ proc[p].pc = "dup_insert"
  /\ UNCHANGED <<options, votes, now, out, form>>
  /\ LET c == proc[p]
         row == [id |-> nextId, user_id |-> c.user, question |-> c.args.question,
                 starts_at |-> NULL, ends_at |-> NULL, archived |-> FALSE]
     IN  /\ nextId + Len(c.args.options) <= MaxId
         /\ PollsPolicy("INSERT", c.user, row)
         /\ polls' = polls \cup {row}
         /\ nextId' = nextId + 1
         /\ IF Len(c.args.options) > 0
            THEN Hold(p, "dup_options", c.op, c.user, row.id, c.args, c.local)
            ELSE DuplicateDone(p, row.id)

\* duplicatePoll's db_insertOptions for the new poll.
DuplicatePollOptions(p) ==
  /\ proc[p].pc = "dup_options"
  /\ UNCHANGED <<now, out, form>>
  /\ LET c == proc[p]
         rows == NewOptions(c.poll, c.args.options)
         error == OptionsInsertError(c.user, rows)
     IN  IF error # NoError
         THEN LET del == PollsDelete(c.user, c.poll) IN
              /\ polls' = del.polls /\ options' = del.options /\ votes' = del.votes
              /\ nextId' = nextId
              /\ Return(p, c.op, c.user, c.poll, BadId,
                        Failure("Failed to create poll options.", 500))
         ELSE /\ options' = options \cup rows
              /\ nextId' = nextId + Len(c.args.options)
              /\ UNCHANGED <<polls, votes>>
              /\ DuplicateDone(p, c.poll)

\* ------------------------------------- createPoll when the options insert fails
\* db_insertOptions when the storage answers the insert with an error of its
\* own (not a policy violation): the rows are not written, the poll is
\* cleaned up and the error is thrown.
CreatePollOptionsRefused(p) ==
  /\ proc[p].pc = "create_options"
  /\ UNCHANGED <<now, out, nextId, form>>
  /\ LET c == proc[p]
         del == PollsDelete(c.user, c.poll)
     IN  /\ polls' = del.polls /\ options' = del.options /\ votes' = del.votes
         /\ Return(p, c.op, c.user, c.poll, BadId,
                   Failure("Failed to create poll options.", 500))

\* createPoll of lib/actions.ts up to its insert into polls: it validates,
\* asks for the user, and inserts the poll.
LegacyCreatePollInsert(p, u, values) ==
  /\ Free(p)
  /\ UNCHANGED <<options, votes, now, out, form>>
  /\ IF createPollFormSchema(values) # {}
     THEN /\ Reject(p, "actions.createPoll", u, BadId, values,
                    [Failure("Validation failed", 0)
                       EXCEPT !.errors = createPollFormSchema(values)])
          /\ UNCHANGED <<polls, nextId>>
     ELSE IF u = NoUser
     THEN /\ Reject(p, "actions.createPoll", u, BadId, values,
                    Failure("User not authenticated.", 0))
          /\ UNCHANGED <<polls, nextId>>
     ELSE LET row == [id |-> nextId, user_id |-> u, question |-> values.question,
                      starts_at |-> values.starts_at, ends_at |-> values.ends_at,
                      archived |-> FALSE]
          IN  /\ nextId + Len(values.options) <= MaxId
              /\ PollsPolicy("INSERT", u, row)
              /\ polls' = polls \cup {row}
              /\ nextId' = nextId + 1
              /\ Hold(p, "legacy_options", "actions.createPoll", u, row.id, values, {})

\* createPoll of lib/actions.ts: its insert into options; an error is thrown
\* as it comes.
LegacyCreatePollOptions(p) ==
  /\ proc[p].pc = "legacy_options"
  /\ UNCHANGED <<polls, votes, now, out, form>>
  /\ LET c == proc[p]
         rows == NewOptions(c.poll, c.args.options)
         error == OptionsInsertError(c.user, rows)
     IN  IF error # NoError
         THEN /\ UNCHANGED <<options, nextId>>
              /\ Return(p, c.op, c.user, c.poll, BadId,
                        Failure("Could not create poll options", 0))
         ELSE /\ options' = options \cup rows
              /\ nextId' = nextId + Len(c.args.options)
              /\ Return(p, c.op, c.user, c.poll, BadId, Res(TRUE, "", 0, c.poll))

\* The same step when the storage answers the insert with an error of its own.
LegacyCreatePollOptionsRefused(p) ==
  /\ proc[p].pc = "legacy_options"
  /\ UNCHANGED <<polls, options, votes, now, out, nextId, form>>
  /\ LET c == proc[p] IN
     Return(p, c.op, c.user, c.poll, BadId,
            Failure("Could not create poll options", 0))

\* Forms without a window and with two options, well-formed or not.
PlainForms ==
  {f \in Forms : f.starts_at = NULL /\ f.ends_at = NULL
                   /\ f.options \in {<<"A", "B">>, <<"A", "A">>}}

\* One client creates polls, through every createPoll there is, while another
\* deletes polls, over a storage that may refuse an insert into options.
NextFault ==
  \/ \E u \in Sessions, values \in PlainForms :
       \/ \E api \in {"action", "http"} : CreatePollInsert(1, api, u, values)
       \/ LegacyCreatePollInsert(1, u, values)
  \/ \E u \in Users, pollId \in {q.id : q \in polls} :
       DeletePoll(2, "action", u, pollId)
  \/ CreatePollOptions(1)
  \/ CreatePollOptionsRefused(1)
  \/ LegacyCreatePollOptions(1)
  \/ LegacyCreatePollOptionsRefused(1)

SpecFault == InitVote /\ [][NextFault]_vars

CreateOps == {"createPoll", "POST /polls", "actions.createPoll"}

\* C11: once a create has returned an error, no poll row that the call
\* inserted remains in storage (the request record keeps the identifier of the
\* poll it inserted; identifiers are never reused).
NoPollLeftBehind ==
  \A p \in Procs :
    (proc[p].pc = "done" /\ proc[p].op \in CreateOps /\ ~proc[p].res.ok)
      => \A q \in polls : q.id # proc[p].poll

\* ------------------------------------------------- editing: the system
\* Well-formed forms without a window whose options are drawn from the first
\* poll's stored values and one more.
EditValues == {"Red", "Blue", "A"}
EditForms ==
  {f \in [question : {QFive},
          options : UNION {[1..n -> EditValues] : n \in 2..MaxOptions},
          starts_at : {NULL}, ends_at : {NULL}] :
     createPollFormSchema(f) = {}}

\* The two sample polls with a vote on each option of the first.
InitEdit ==
  /\ polls = VotePolls
  /\ options = VoteOptions
  /\ votes = {[option_id |-> 1, user_id |-> 2, poll_id |-> 1],
              [option_id |-> 2, user_id |-> 1, poll_id |-> 1]}
  /\ now = 0
  /\ proc = [p \in Procs |-> Idle]
  /\ out = NoRes
  /\ nextId = 5
  /\ form = NoArgs

\* One request at a time: signed-in users, its owner and others, edit the
\* first poll through the server action or the route.
NextEdit ==
  \/ \E api \in {"action", "http"}, u \in Users, values \in EditForms :
       EditPollUpdate(1, api, u, 1, values)
  \/ EditPollFetch(1)
  \/ EditPollAdd(1)
  \/ EditPollRemove(1)

SpecEdit == InitEdit /\ [][NextEdit]_vars

\* ------------------------------------------------- editing: properties
EditOps == {"editPoll", "PUT /polls/id"}

\* Request p has just taken a step.
Stepped(p) == proc'[p] # proc[p]

\* Request p, an edit past its first step, has just returned.
EditReturned(p) ==
  /\ proc[p].op \in EditOps
  /\ proc[p].pc \in {"edit_fetch", "edit_add", "edit_remove"}
  /\ proc'[p].pc = "done"

\* The caller of request record c owns the poll c is about / is signed in and
\* does not own it.
IsOwner(c)  == \E q \in polls : q.id = c.poll /\ q.user_id = c.user
NotOwner(c) ==
  c.user # NoUser /\ \E q \in polls : q.id = c.poll /\ q.user_id # c.user

\* The values of a submitted option list.
ValuesOf(list) == {list[i] : i \in 1..Len(list)}

\* The option rows of the poll as they were when the edit p was called: with
\* one request at a time, the rows it fetched, or the rows there are while it
\* has not fetched.
StoredOptions(p) ==
  IF proc[p].pc = "edit_fetch"
  THEN {o \in options : o.poll_id = proc[p].poll}
  ELSE proc[p].local

\* C12: an edit by the poll's owner whose option values are the stored ones,
\* in any order, inserts and deletes no option row and changes no vote; an
\* edit that renames exactly one value deletes the row of the old value with
\* every vote on it, inserts one row with the new value under a fresh
\* identifier, and leaves every other option with its identifier and votes.
OwnerEditDiff ==
  [][\A p \in Procs :
       (Stepped(p) /\ proc'[p].op \in EditOps /\ IsOwner(proc'[p])) =>
         LET c      == proc[p]
             old    == StoredOptions(p)
             oldVal == {o.value : o \in old}
             newVal == ValuesOf(c.args.options)
             mine   == {o \in options' : o.poll_id = c.poll}
             gone   == {o \in old : o.value \notin newVal}
             kept   == old \ gone
         IN  /\ {o \in options' : o.poll_id # proc'[p].poll}
                  = {o \in options : o.poll_id # proc'[p].poll}
             /\ \A o \in options' \ options : \A x \in options : x.id # o.id
             /\ (~EditReturned(p) \/ c.pc # "edit_remove") => votes' = votes
             /\ (EditReturned(p) /\ newVal = oldVal)
                  => c.pc = "edit_fetch" /\ options' = options /\ votes' = votes
             /\ (EditReturned(p) /\ Cardinality(oldVal \ newVal) = 1
                   /\ Cardinality(newVal \ oldVal) = 1)
                  => /\ proc'[p].res.ok
                     /\ kept \subseteq mine
                     /\ \E o \in mine \ kept :
                          /\ mine \ kept = {o}
                          /\ o.value \in newVal \ oldVal
                          /\ \A x \in old : x.id # o.id
                     /\ votes' = {v \in votes :
                                    v.option_id \notin {o.id : o \in gone}}]_vars

\* The owner has renamed Blue to A: option 2 and the vote on it are gone,
\* option 1 keeps its identifier and its vote, A has a fresh identifier.
RenamedWitness ==
  /\ proc[1].pc = "done" /\ proc[1].op = "editPoll" /\ proc[1].res.ok
  /\ {o \in options : o.poll_id = 1}
       = {[id |-> 1, poll_id |-> 1, value |-> "Red"],
          [id |-> 5, poll_id |-> 1, value |-> "A"]}
  /\ votes = {[option_id |-> 1, user_id |-> 2, poll_id |-> 1]}

\* C13: an edit by a signed-in user who does not own the poll changes no
\* poll, option or vote row and returns success.
NonOwnerEditNoOp ==
  [][\A p \in Procs :
       (Stepped(p) /\ proc'[p].op \in EditOps /\ NotOwner(proc'[p]))
         => /\ UNCHANGED <<polls, options, votes>>
            /\ proc'[p].pc = "done" => proc'[p].res.ok]_vars

\* ------------------------------------------- editing: concurrent requests
\* Two requests at a time by the owner of the first poll: edits of it and
\* copies of it.
RaceForms ==
  {f \in EditForms : f.options \in {<<"Red", "A">>, <<"Red", "Blue">>}}

\* The questions a copy may be given.
NewQuestions == {QFive}

\* The first sample poll alone, with a vote on each of its options.
InitRace ==
  /\ polls = {q \in VotePolls : q.id = 1}
  /\ options = {o \in VoteOptions : o.poll_id = 1}
  /\ votes = {[option_id |-> 1, user_id |-> 2, poll_id |-> 1],
              [option_id |-> 2, user_id |-> 1, poll_id |-> 1]}
  /\ now = 0
  /\ proc = [p \in Procs |-> Idle]
  /\ out = NoRes
  /\ nextId = 3
  /\ form = NoArgs

NextEditRace ==
  \/ \E p \in Procs, values \in RaceForms :
       EditPollUpdate(p, "action", 1, 1, values)
  \/ \E u \in {1, 2}, newQuestion \in NewQuestions \cup {<<>>} :
       DuplicatePollFetch(1, "action", u, 1, newQuestion)
  \/ \E p \in Procs :
       \/ EditPollFetch(p)
       \/ EditPollAdd(p)
       \/ EditPollRemove(p)
       \/ DuplicatePollInsert(p)
       \/ DuplicatePollOptions(p)

SpecEditRace == InitRace /\ [][NextEditRace]_vars

\* C14: no poll has two option rows with the same value, whatever creates,
\* edits and copies have run and however their steps interleave.
OptionValuesUnique ==
  \A o1, o2 \in options :
    (o1.poll_id = o2.poll_id /\ o1.value = o2.value) => o1.id = o2.id

\* C16: a copy is one new poll of the caller, titled "Copy of " + the
\* original's question or with the question given, without a window, and its
\* options are one fresh row per option value of the original, without votes;
\* no other row changes.
DuplicateCopies ==
  [][\A p \in Procs :
       LET c == proc[p]
           original == CHOOSE q \in c.local : TRUE
           values == ValuesOf(c.args.options)
           added == options' \ options
       IN  /\ (c.pc = "dup_insert" /\ proc'[p].pc # "dup_insert") =>
                /\ options' = options /\ votes' = votes /\ polls \subseteq polls'
                /\ \E q \in polls' \ polls :
                     /\ polls' = polls \cup {q}
                     /\ \A x \in polls : x.id # q.id
                     /\ q.user_id = c.user
                     /\ q.question \in {CopyOf(original.question)} \cup NewQuestions
                     /\ q.starts_at = NULL /\ q.ends_at = NULL
           /\ (c.pc = "dup_options" /\ proc'[p].pc = "done" /\ proc'[p].res.ok) =>
                /\ polls' = polls /\ votes' = votes /\ options \subseteq options'
                /\ \A o \in added :
                     /\ o.poll_id = c.poll
                     /\ \A x \in options : x.id # o.id
                /\ {o.value : o \in added} = values
                /\ Cardinality(added) = Cardinality(values)
                /\ \A v \in votes' : v.poll_id # c.poll
                                     /\ \A o \in added : v.option_id # o.id
  ]_vars

\* ======================================= owner operations, one at a time
\* One request at a time: any session deletes, archives, restores, copies or
\* asks about the ownership of a sample poll or of a poll that does not exist.
NextOwner ==
  \/ \E api \in {"action", "http"}, u \in Sessions, pollId \in PollArgs \cup {AbsentId} :
       \/ DeletePoll(1, api, u, pollId)
       \/ ArchivePoll(1, api, u, pollId)
       \/ RestorePoll(1, api, u, pollId)
  \/ \E u \in Sessions, pollId \in PollArgs \cup {AbsentId}, userId \in Sessions :
       ValidatePollOwnership(1, u, pollId, userId)
  \/ \E api \in {"action", "http"}, u \in Sessions, pollId \in PollArgs \cup {AbsentId},
        newQuestion \in NewQuestions \cup {<<>>} :
       DuplicatePollFetch(1, api, u, pollId, newQuestion)
  \/ DuplicatePollInsert(1)
  \/ DuplicatePollOptions(1)

SpecOwner == InitEdit /\ [][NextOwner]_vars

DeleteOps == {"deletePoll", "DELETE /polls/id"}

\* Request p, a call of one of ops by a signed-in user, has just returned.
Answered(p, ops) ==
  /\ Stepped(p)
  /\ proc'[p].pc = "done"
  /\ proc'[p].op \in ops
  /\ proc'[p].user # NoUser

\* C15: a delete by the poll's owner removes the poll, its options and the
\* votes on those options, and no other row; a delete by a signed-in user who
\* is not the owner returns without error and changes no row.
DeleteRemovesOwnPollOnly ==
  [][\A p \in Procs :
       Answered(p, DeleteOps) =>
         LET c == proc'[p]
             gone == {o \in options : o.poll_id = c.poll}
         IN  /\ c.res.ok
             /\ IF IsOwner(c)
                THEN /\ polls' = {q \in polls : q.id # c.poll}
                     /\ options' = options \ gone
                     /\ votes' = {v \in votes : \A o \in gone : v.option_id # o.id}
                ELSE /\ polls' = polls /\ options' = options /\ votes' = votes
  ]_vars

\* The owner has deleted the first poll: it is gone with its options and the
\* two votes on them, and the second poll is as it was.
OwnerDeletedWitness ==
  /\ proc[1].pc = "done" /\ proc[1].op \in DeleteOps
  /\ proc[1].user = 1 /\ proc[1].poll = 1 /\ proc[1].res.ok
  /\ \A q \in polls : q.id # 1
  /\ {o.id : o \in options} = {3, 4}
  /\ votes = {}

ArchiveOps == {"archivePoll", "POST /polls/id/archive"}
RestoreOps == {"restorePoll", "POST /polls/id/restore"}

\* The polls after the flag of poll pollId is set to flag, every other column
\* and every other poll as before.
Flagged(pollId, flag) ==
  {IF q.id = pollId
   THEN [id |-> q.id, user_id |-> q.user_id, question |-> q.question,
         starts_at |-> q.starts_at, ends_at |-> q.ends_at, archived |-> flag]
   ELSE q : q \in polls}

\* C17: archive sets the flag of the caller's own poll and restore clears it,
\* changing nothing else; on a poll that already has the flag asked for
\* nothing changes, restore after archive leaves it cleared and archive after
\* restore leaves it set; a call by anyone but the owner changes nothing.
ArchiveRestoreOwnFlagOnly ==
  [][\A p \in Procs :
       Answered(p, ArchiveOps \cup RestoreOps) =>
         LET c == proc'[p]
             flag == c.op \in ArchiveOps
         IN  /\ options' = options /\ votes' = votes
             /\ IF IsOwner(c)
                THEN /\ polls' = Flagged(c.poll, flag)
                     /\ \A q \in polls' : q.id = c.poll => q.archived = flag
                     /\ (\A q \in polls : q.id = c.poll => q.archived = flag)
                          => polls' = polls
                ELSE polls' = polls
  ]_vars

\* The owner has restored the first poll while the second poll, archived by
\* its own owner, keeps its flag.
RestoredWitness ==
  /\ proc[1].pc = "done" /\ proc[1].op \in RestoreOps
  /\ proc[1].user = 1 /\ proc[1].poll = 1 /\ proc[1].res.ok
  /\ \E q \in polls : q.id = 1 /\ ~q.archived
  /\ \E q \in polls : q.id = 2 /\ q.archived

\* C18: validatePollOwnership answers true exactly when the caller is signed
\* in, the poll exists and its owner is the user asked about (the caller when
\* none is named); otherwise it answers false; it changes no row.
OwnershipAnswer ==
  [][\A p \in Procs :
       (Stepped(p) /\ proc'[p].op = "validatePollOwnership") =>
         LET c == proc'[p]
             asked == IF c.option # NoUser THEN c.option ELSE c.user
         IN  /\ c.pc = "done"
             /\ c.res.ok = (/\ c.user # NoUser
                            /\ \E q \in polls : q.id = c.poll /\ q.user_id = asked)
             /\ polls' = polls /\ options' = options /\ votes' = votes
  ]_vars

\* User 2, signed in, has asked whether user 1 owns the first poll and was
\* told so.
AskedAboutOtherWitness ==
  /\ proc[1].pc = "done" /\ proc[1].op = "validatePollOwnership"
  /\ proc[1].user = 2 /\ proc[1].option = 1 /\ proc[1].poll = 1
  /\ proc[1].res.ok

\* =============================================== callers without a session
\* A well-formed and a malformed poll form.
AnonForms ==
  {[question |-> QFive, options |-> <<"Red", "A">>, starts_at |-> NULL,
    ends_at |-> NULL],
   [question |-> QShort, options |-> <<"A", "A">>, starts_at |-> NULL,
    ends_at |-> NULL]}

\* One request at a time, by user 1 or by a caller without a session, through
\* every server action and route that writes and through the two reads.
NextAnon ==
  \/ \E api \in {"action", "http"}, u \in {NoUser, 1}, values \in AnonForms :
       \/ CreatePollInsert(1, api, u, values)
       \/ EditPollUpdate(1, api, u, 1, values)
  \/ \E u \in {NoUser, 1}, values \in AnonForms : LegacyCreatePollInsert(1, u, values)
  \/ \E api \in {"action", "http"}, u \in {NoUser, 1} :
       \/ DeletePoll(1, api, u, 2)
       \/ ArchivePoll(1, api, u, 1)
       \/ RestorePoll(1, api, u, 1)
       \/ DuplicatePollFetch(1, api, u, 1, <<>>)
       \/ GetPolls(1, api, u)
       \/ GetPollById(1, api, u, 1)
  \/ \E u \in {NoUser, 1}, optionId \in {1, 2} :
       \/ CastVoteCheck(1, u, 1, optionId)
       \/ ChangeVoteCheck(1, u, 1, optionId)
       \/ VotePOST(1, u, 1, optionId)
       \/ VotePUT(1, u, 1, optionId)
  \/ \E u \in {NoUser, 1} :
       \/ RemoveVoteCheck(1, u, 1)
       \/ VoteDELETE(1, u, 1)
  \/ CreatePollOptions(1)
  \/ LegacyCreatePollOptions(1)
  \/ EditPollFetch(1)
  \/ EditPollAdd(1)
  \/ EditPollRemove(1)
  \/ DuplicatePollInsert(1)
  \/ DuplicatePollOptions(1)
  \/ VoteStep(1)

SpecAnon == InitVote /\ [][NextAnon]_vars

\* The names of the handlers that write, and of the two reads.
WriteOps ==
  CreateOps \cup EditOps \cup DeleteOps \cup ArchiveOps \cup RestoreOps
    \cup {"duplicatePoll", "POST /polls/id/duplicate"}
    \cup {"castVote", "changeVote", "removeVote", "POST", "PUT", "DELETE"}
ReadOps == {"getPolls", "GET /polls", "getPollById", "GET /polls/id"}

\* The messages of the errors raised for a missing session.
AuthMessages == {"Authentication required", "User not authenticated."}

\* C19: called without a session, every handler that writes fails with an
\* authentication error and changes no poll, option or vote, and the reads of
\* all polls and of one stored poll succeed.
NoSessionNoWrite ==
  [][\A p \in Procs :
       (Stepped(p) /\ proc'[p].user = NoUser) =>
         LET c == proc'[p] IN
         /\ c.op \in WriteOps =>
              /\ c.pc = "done" /\ ~c.res.ok /\ c.res.msg \in AuthMessages
              /\ polls' = polls /\ options' = options /\ votes' = votes
         /\ c.op \in ReadOps =>
              /\ c.pc = "done" /\ c.res.ok
              /\ polls' = polls /\ options' = options /\ votes' = votes
  ]_vars

\* ============================================================ HTTP surface
\* One request at a time through the routes, with or without a session, with
\* a well-formed or a malformed body, on a stored poll or on an identifier no
\* poll carries.
NextHttp ==
  \/ \E u \in Sessions, values \in AnonForms :
       \/ CreatePollInsert(1, "http", u, values)
       \/ EditPollUpdate(1, "http", u, 1, values)
  \/ \E u \in Sessions, pollId \in {1, AbsentId} :
       \/ DeletePoll(1, "http", u, pollId)
       \/ ArchivePoll(1, "http", u, pollId)
       \/ RestorePoll(1, "http", u, pollId)
       \/ DuplicatePollFetch(1, "http", u, pollId, <<>>)
       \/ GetPollById(1, "http", u, pollId)
       \/ VoteGET(1, u, pollId)
       \/ VoteDELETE(1, u, pollId)
  \/ \E u \in Sessions : GetPolls(1, "http", u)
  \/ \E u \in Sessions, optionId \in {1, 2, BadId} :
       \/ VotePOST(1, u, 1, optionId)
       \/ VotePUT(1, u, 1, optionId)
  \/ CreatePollOptions(1)
  \/ EditPollFetch(1)
  \/ EditPollAdd(1)
  \/ EditPollRemove(1)
  \/ DuplicatePollInsert(1)
  \/ DuplicatePollOptions(1)

SpecHttp == InitVote /\ [][NextHttp]_vars

\* The routes that ask for a session.
SessionRoutes ==
  {"POST /polls", "PUT /polls/id", "DELETE /polls/id", "POST /polls/id/duplicate",
   "POST /polls/id/archive", "POST /polls/id/restore",
   "GET", "POST", "PUT", "DELETE"}

\* C20: a route that asks for a session answers 401 when there is none; a
\* malformed body is answered 400; GET /polls/{id} for a poll that does not
\* exist is answered 404; a poll created is answered 201 and a poll deleted
\* 204.
StatusCodes ==
  [][\A p \in Procs :
       (Stepped(p) /\ proc'[p].pc = "done") =>
         LET c == proc'[p] IN
         /\ (c.op \in SessionRoutes /\ c.user = NoUser) => c.res.code = 401
         /\ (c.op \in {"POST /polls", "PUT /polls/id"} /\ c.user # NoUser
               /\ c.args # NoArgs /\ Malformed(c.args)) => c.res.code = 400
         /\ (c.op = "POST" /\ c.user # NoUser /\ c.option = BadId) => c.res.code = 400
         /\ (c.op = "GET /polls/id" /\ \A q \in polls : q.id # c.poll)
               => c.res.code = 404
         /\ (c.op \in {"POST /polls", "POST /polls/id/duplicate"} /\ c.res.ok)
               => c.res.code = 201
         /\ (c.op = "DELETE /polls/id" /\ c.res.ok) => c.res.code = 204
  ]_vars

\* ====================================================== reads among writes
\* Request 1 reads without a session, through the server actions or the
\* routes, while request 2 votes on the first poll, takes votes back, edits
\* the first poll or deletes the second.
NextRead ==
  \/ \E api \in {"action", "http"} :
       \/ GetPolls(1, api, NoUser)
       \/ \E pollId \in {1, AbsentId} : GetPollById(1, api, NoUser, pollId)
  \/ \E u \in {1, 2}, optionId \in {1, 2} : VotePOST(2, u, 1, optionId)
  \/ \E u \in {1, 2} : VoteDELETE(2, u, 1)
  \/ \E values \in RaceForms : EditPollUpdate(2, "action", 1, 1, values)
  \/ DeletePoll(2, "action", 2, 2)
  \/ EditPollFetch(2)
  \/ EditPollAdd(2)
  \/ EditPollRemove(2)

SpecRead == InitEdit /\ [][NextRead]_vars

\* The view rows of the polls in shown are the polls stored with those
\* identifiers, each with exactly its stored options, each option with the
\* number of stored votes that reference it.
ViewOf(rows, shown) ==
  /\ {r.id : r \in rows} = {q.id : q \in shown}
  /\ \A r \in rows :
       /\ \E q \in shown :
            /\ q.id = r.id /\ q.question = r.question /\ q.user_id = r.user_id
            /\ q.starts_at = r.starts_at /\ q.ends_at = r.ends_at
       /\ {o.id : o \in r.options} = {o.id : o \in {x \in options : x.poll_id = r.id}}
       /\ \A o \in r.options :
            /\ \E x \in options : x.id = o.id /\ x.value = o.value
            /\ o.vote_count = Cardinality({v \in votes : v.option_id = o.id})
  /\ \A r1, r2 \in rows : r1.id = r2.id => r1 = r2

\* C21: each read of all polls and of one poll returns the options stored at
\* the time of the read, each with the number of votes stored on it at that
\* time, whatever writes came before the read.
ReadsCurrent ==
  [][\A p \in Procs :
       (Stepped(p) /\ proc'[p].op \in ReadOps) =>
         LET c == proc'[p] IN
         /\ c.pc = "done"
         /\ polls' = polls /\ options' = options /\ votes' = votes
         /\ IF c.op \in {"getPolls", "GET /polls"}
            THEN c.res.ok /\ ViewOf(c.local, polls)
            ELSE /\ ViewOf(c.local, {q \in polls : q.id = c.poll})
                 /\ c.res.ok = (c.op = "getPollById" \/ c.local # {})
  ]_vars

\* A read of the first poll after an edit gave it a third option row and a
\* vote was taken back: the view has the new option with no vote.
ReadAfterWritesWitness ==
  /\ proc[1].pc = "done" /\ proc[1].op = "getPollById" /\ proc[1].poll = 1
  /\ \E r \in proc[1].local :
       /\ \E o \in r.options : o.value = "A" /\ o.vote_count = 0
       /\ \E o \in r.options : o.value = "Red" /\ o.vote_count = 1
       /\ Cardinality(votes) = 1

\* ==================================== lib/actions.ts against lib/actions/*
\* C22: createPoll of lib/actions.ts leaves the rows and reports the outcome
\* that createPoll of lib/actions/poll-management leaves and reports from the
\* same state for the same caller, form and storage answers: it is refused
\* before any write for the same forms and callers, and at the options insert
\* it ends with the option rows stored on success and, on failure, with the
\* poll it inserted taken out again.
LegacyAsModular ==
  [][\A p \in Procs :
       LET c == proc[p]
           d == proc'[p]
       IN  /\ (Free(p) /\ Stepped(p) /\ d.op = "actions.createPoll") =>
                /\ (d.pc = "done") = (Precheck("action", d.user, d.args) # NoRes)
                /\ d.pc = "done" =>
                     /\ ~d.res.ok
                     /\ d.res.errors = Precheck("action", d.user, d.args).errors
                     /\ polls' = polls /\ options' = options /\ votes' = votes
           /\ (c.pc = "legacy_options" /\ d.pc = "done") =>
                IF d.res.ok
                THEN /\ polls' = polls /\ votes' = votes
                     /\ options' = options \cup NewOptions(c.poll, c.args.options)
                ELSE LET del == PollsDelete(c.user, c.poll) IN
                     /\ polls' = del.polls
                     /\ options' = del.options
                     /\ votes' = del.votes
  ]_vars

\* C23: when an edit by the poll's owner, alone on the poll, returns success,
\* the values of the poll's stored options are the submitted values.
EditStoresSubmitted ==
  [][\A p \in Procs :
       (EditReturned(p) /\ IsOwner(proc'[p]) /\ proc'[p].res.ok) =>
         {o.value : o \in {x \in options' : x.poll_id = proc[p].poll}}
           = ValuesOf(proc[p].args.options)
  ]_vars

\* The owner's edit through the route has replaced Red by A: the poll holds
\* Blue and A, and the vote on Red is gone.
ReplacedViaRouteWitness ==
  /\ proc[1].pc = "done" /\ proc[1].op = "PUT /polls/id" /\ proc[1].res.ok
  /\ proc[1].user = 1 /\ proc[1].poll = 1
  /\ {o.value : o \in {x \in options : x.poll_id = 1}} = {"Blue", "A"}
  /\ votes = {[option_id |-> 2, user_id |-> 1, poll_id |-> 1]}

\* ==================================================== the poll voting form
MaxSubmits == 2    \* cast requests one mounted voting form may issue

\* The isActive flag PollDetailPage computes for the poll at instant t.
pageIsActive(poll, t) ==
  LET hasStarted == IF poll.starts_at # NULL THEN poll.starts_at <= t ELSE TRUE
      hasEnded   == IF poll.ends_at # NULL THEN poll.ends_at <= t ELSE FALSE
  IN  hasStarted /\ ~hasEnded

\* PollVotingForm: disableVoting, which disables the radio inputs and the
\* submit button.
disableVoting(f) ==
  ~f.isActive \/ f.hasVotedLocally \/ f.isPending \/ f.currentUser = NoUser

\* The form as PollDetailPage mounts it for poll 1 and the session user: the
\* component posts to the vote route (variant "fetch") or calls the castVote
\* server action through useActionState (variant "action"); initialState is
\* the action state, effect tells that the effect on initialState has yet to
\* run; requests counts the cast requests issued and succeeded records that
\* one of them has returned success.
MountedForm(variant, u) ==
  LET mine == {v \in votes : v.user_id = u /\ v.poll_id = 1} IN
  [variant |-> variant,
   currentUser |-> u,
   isActive |-> pageIsActive(CHOOSE q \in polls : q.id = 1, now),
   hasVotedLocally |-> u # NoUser /\ Cardinality(mine) = 1,
   selectedOption |-> IF u # NoUser /\ Cardinality(mine) = 1
                      THEN (CHOOSE v \in mine : TRUE).option_id ELSE NULL,
   isPending |-> FALSE,
   initialState |-> "none",
   effect |-> FALSE,
   requests |-> 0,
   succeeded |-> FALSE]

\* The two sample polls, with or without a vote of user 1 in the first, and
\* the form mounted for any session.
InitForm ==
  /\ polls = VotePolls
  /\ options = VoteOptions
  /\ votes \in {{}, {[option_id |-> 1, user_id |-> 1, poll_id |-> 1]}}
  /\ now = 0
  /\ proc = [p \in Procs |-> Idle]
  /\ out = NoRes
  /\ nextId = 5
  /\ \E variant \in {"fetch", "action"}, u \in Sessions :
       form = MountedForm(variant, u)

\* handleOptionChange, on a radio input that is not disabled.
FormSelect(optionId) ==
  /\ ~disableVoting(form)
  /\ form.selectedOption # optionId
  /\ form' = [form EXCEPT !.selectedOption = optionId]
  /\ UNCHANGED <<polls, options, votes, now, proc, out, nextId>>

\* handleFormSubmit, reached through the submit button or an input that is
\* not disabled, with an option selected: the transition starts and the
\* request leaves.
FormSubmit ==
  /\ ~disableVoting(form)
  /\ form.selectedOption # NULL
  /\ form.requests < MaxSubmits
  /\ form' = [form EXCEPT !.isPending = TRUE, !.requests = @ + 1]
  /\ proc' = [proc EXCEPT ![1] = Idle]
  /\ UNCHANGED <<polls, options, votes, now, out, nextId>>

\* The request of the form arrives: POST /api/polls/1/vote, or castVote up to
\* its first storage call.
FormRequestArrives ==
  /\ form.isPending
  /\ proc[1].pc = "idle"
  /\ IF form.variant = "fetch"
     THEN VotePOST(1, form.currentUser, 1, form.selectedOption)
     ELSE /\ CastVoteCheck(1, form.currentUser, 1, form.selectedOption)

\* The response of the vote route reaches the fetch variant: on response.ok
\* setHasVotedLocally(true), and the transition ends.
FormResponse ==
  /\ form.variant = "fetch"
  /\ form.isPending
  /\ proc[1].pc = "done"
  /\ form' = [form EXCEPT !.isPending = FALSE,
                          !.hasVotedLocally = @ \/ proc[1].res.ok,
                          !.succeeded = @ \/ proc[1].res.ok]
  /\ UNCHANGED <<polls, options, votes, now, proc, out, nextId>>

\* castVote's return value becomes the action state of the action variant
\* and the transition ends; the effect on initialState is due.
FormActionState ==
  /\ form.variant = "action"
  /\ form.isPending
  /\ proc[1].pc = "done"
  /\ form' = [form EXCEPT !.isPending = FALSE,
                          !.initialState = IF proc[1].res.ok THEN "success"
                                           ELSE "error",
                          !.effect = TRUE,
                          !.succeeded = @ \/ proc[1].res.ok]
  /\ UNCHANGED <<polls, options, votes, now, proc, out, nextId>>

\* useEffect([initialState]) of the action variant.
FormEffect ==
  /\ form.effect
  /\ form' = [form EXCEPT !.effect = FALSE,
                          !.hasVotedLocally = @ \/ form.initialState = "success"]
  /\ UNCHANGED <<polls, options, votes, now, proc, out, nextId>>

\* The page is rendered again and hands the form a new isActive.
FormRerender ==
  /\ form.isActive # pageIsActive(CHOOSE q \in polls : q.id = 1, now)
  /\ form' = [form EXCEPT !.isActive = pageIsActive(CHOOSE q \in polls : q.id = 1, now)]
  /\ UNCHANGED <<polls, options, votes, now, proc, out, nextId>>

NextForm ==
  \/ \E optionId \in {1, 2} : FormSelect(optionId)
  \/ FormSubmit
  \/ FormRequestArrives
  \/ CastVotePoll(1)
  \/ CastVoteInsert(1)
  \/ FormResponse
  \/ FormActionState
  \/ FormEffect
  \/ FormRerender
  \/ Tick

SpecForm == InitForm /\ [][NextForm]_vars

\* C24: hasVotedLocally never goes back to false and becomes true only once
\* a cast request has returned success; a cast request is issued only while
\* none is pending, none has succeeded, the poll is active and there is a
\* current user.
VotingFormGuards ==
  [][/\ form.hasVotedLocally => form'.hasVotedLocally
     /\ (~form.hasVotedLocally /\ form'.hasVotedLocally) => form'.succeeded
     /\ form'.requests # form.requests =>
          /\ ~form.isPending
          /\ ~form.succeeded
          /\ form.isActive
          /\ form.currentUser # NoUser
  ]_vars

\* ============================================== votes and the poll's options
\* C25: the option of every vote row is an option of the poll of that vote
\* row.
VoteOptionInPoll ==
  \A v \in votes :
    \E o \in options : o.id = v.option_id /\ o.poll_id = v.poll_id

\* C26: whenever no request is in progress, every stored poll has at least
\* two option rows.
AtLeastTwoOptions ==
  (\A p \in Procs : Free(p)) =>
    \A q \in polls : Cardinality({o \in options : o.poll_id = q.id}) >= 2

\* ===================================== vote routes against the server actions
\* Whether castVote, called by u for poll pollId and option optionId in the
\* present state, goes through all its checks and inserts the vote.
castVoteAccepts(u, pollId, optionId) ==
  /\ u # NoUser
  /\ castVoteFormSchema(optionId, pollId) = {}
  /\ Single(MyVotes(u, pollId)).data = {}
  /\ PollRows(pollId) # {}
  /\ castVoteTiming(CHOOSE q \in PollRows(pollId) : TRUE, now) = "ok"
  /\ VotesInsertError([option_id |-> optionId, user_id |-> u, poll_id |-> pollId])
       = NoError

\* The same for changeVote and its update, and for removeVote and its delete.
changeVoteAccepts(u, pollId, newOptionId) ==
  /\ u # NoUser
  /\ PollRows(pollId) # {}
  /\ ~changeVoteEnded(CHOOSE q \in PollRows(pollId) : TRUE, now)
  /\ VotesUpdate(u, pollId, newOptionId).error = NoError

removeVoteAccepts(u, pollId) ==
  /\ u # NoUser
  /\ PollRows(pollId) # {}
  /\ ~removeVoteEnded(CHOOSE q \in PollRows(pollId) : TRUE, now)

\* C27: POST, PUT and DELETE /polls/{id}/vote succeed for exactly the
\* requests for which castVote, changeVote and removeVote succeed from the
\* same state at the same instant, and change the votes table only then.
VoteRoutesAsActions ==
  [][\A p \in Procs :
       LET c == proc'[p] IN
       /\ Called(p, "POST") =>
            /\ c.res.ok = castVoteAccepts(c.user, c.poll, c.option)
            /\ ~c.res.ok => votes' = votes
       /\ Called(p, "PUT") =>
            /\ c.res.ok = changeVoteAccepts(c.user, c.poll, c.option)
            /\ ~c.res.ok => votes' = votes
       /\ Called(p, "DELETE") =>
            /\ c.res.ok = removeVoteAccepts(c.user, c.poll)
            /\ ~c.res.ok => votes' = votes
  ]_vars

\* ======================================== editPoll when storage calls fail
\* db_updatePollDetails when the storage answers the update with an error:
\* nothing is written and the error is thrown.
EditPollUpdateRefused(p, api, u, pollId, values) ==
  /\ Free(p)
  /\ Precheck(api, u, values) = NoRes
  /\ UNCHANGED <<polls, options, votes, now, out, nextId, form>>
  /\ Return(p, EditOp(api), u, pollId, BadId,
            Failure("Failed to update poll details.", 500))

\* db_updatePollOptions when the storage answers the select with an error.
EditPollFetchRefused(p) ==
  /\ proc[p].pc = "edit_fetch"
  /\ UNCHANGED <<polls, options, votes, now, out, nextId, form>>
  /\ LET c == proc[p] IN
     Return(p, c.op, c.user, c.poll, BadId,
            Failure("Failed to fetch existing options.", 500))

\* db_updatePollOptions when the storage answers the insert with an error.
EditPollAddRefused(p) ==
  /\ proc[p].pc = "edit_add"
  /\ UNCHANGED <<polls, options, votes, now, out, nextId, form>>
  /\ LET c == proc[p] IN
     Return(p, c.op, c.user, c.poll, BadId,
            Failure("Failed to add new options.", 500))

\* The failed delete taking the rows the edit has inserted out again.
EditPollRemoveRefused_undoAdd(p) ==
  /\ proc[p].pc = "edit_remove"
  /\ UNCHANGED <<polls, votes, now, out, nextId, form>>
  /\ LET c == proc[p] IN
     /\ options' = {o \in options : o.poll_id # c.poll \/ o \in c.local}
     /\ Return(p, c.op, c.user, c.poll, BadId,
               Failure("Failed to remove old options.", 500))

\* db_updatePollOptions when the storage answers the delete with an error.
EditPollRemoveRefused(p) ==
  /\ proc[p].pc = "edit_remove"
  /\ UNCHANGED <<polls, options, votes, now, out, nextId, form>>
  /\ LET c == proc[p] IN
     Return(p, c.op, c.user, c.poll, BadId,
            Failure("Failed to remove old options.", 500))

\* One request at a time: signed-in users edit the first poll, and any
\* storage call of the edit may fail.
NextEditFault ==
  \/ \E api \in {"action", "http"}, u \in Users, values \in EditForms :
       \/ EditPollUpdate(1, api, u, 1, values)
       \/ EditPollUpdateRefused(1, api, u, 1, values)
  \/ EditPollFetch(1)
  \/ EditPollFetchRefused(1)
  \/ EditPollAdd(1)
  \/ EditPollAddRefused(1)
  \/ EditPollRemove(1)
  \/ EditPollRemoveRefused(1)

SpecEditFault == InitEdit /\ [][NextEditFault]_vars

\* The poll row carries the question and the window of the form.
Carries(q, values) ==
  /\ q.question = values.question
  /\ q.starts_at = values.starts_at
  /\ q.ends_at = values.ends_at

\* C28: an edit writes the poll row in its first step only, inserts options
\* only in its insert step, after the update, and deletes options only in its
\* delete step, after the insert; the step that returns an error writes
\* nothing and nothing is undone: after an error past the update the owner's
\* poll carries the submitted question and window, and after an error at the
\* delete every submitted value and every fetched row is stored.
EditStopsAtFailure ==
  [][\A p \in Procs :
       (Stepped(p) /\ proc'[p].op \in EditOps) =>
         LET c == proc[p]
             d == proc'[p]
             mine == {o \in options' : o.poll_id = d.poll}
         IN  /\ polls' # polls => Free(p)
             /\ (\E o \in options' : o \notin options) => c.pc = "edit_add"
             /\ (\E o \in options : o \notin options') => c.pc = "edit_remove"
             /\ c.pc = "edit_add" => d.pc \in {"edit_remove", "done"}
             /\ c.pc = "edit_remove" => d.pc = "done"
             /\ (d.pc = "done" /\ ~d.res.ok) =>
                  /\ polls' = polls /\ options' = options /\ votes' = votes
                  /\ (~Free(p) /\ IsOwner(d)) =>
                       \A q \in polls' : q.id = d.poll => Carries(q, c.args)
                  /\ (c.pc = "edit_remove" /\ IsOwner(d)) =>
                       /\ ValuesOf(c.args.options) \subseteq {o.value : o \in mine}
                       /\ c.local \subseteq mine
  ]_vars

\* The owner's edit from Red, Blue to Red, A failed at the delete: the poll
\* has the new question and holds Red, Blue and A.
FailedAtDeleteWitness ==
  /\ proc[1].pc = "done" /\ proc[1].op = "editPoll" /\ proc[1].user = 1
  /\ proc[1].res.msg = "Failed to remove old options."
  /\ \E q \in polls : q.id = 1 /\ q.question = QFive
  /\ {o.value : o \in {x \in options : x.poll_id = 1}} = {"Red", "Blue", "A"}
  /\ Cardinality(votes) = 2

\* ===================================================== the frame of a vote
VoteActions == {"castVote", "changeVote", "removeVote"}

\* The vote rows that are not of user u in poll pollId.
OthersVotes(vs, u, pollId) == {v \in vs : v.user_id # u \/ v.poll_id # pollId}

\* One request at a time: signed-in users cast, change and remove votes in
\* both polls through the server actions.
NextFrame ==
  \/ \E u \in Users, pollId \in PollArgs, optionId \in {1, 2, 3} :
       \/ CastVoteCheck(1, u, pollId, optionId)
       \/ ChangeVoteCheck(1, u, pollId, optionId)
  \/ \E u \in Users, pollId \in PollArgs : RemoveVoteCheck(1, u, pollId)
  \/ VoteStep(1)
  \/ Tick

SpecFrame == InitVote /\ [][NextFrame]_vars

\* C29: no step of castVote, changeVote or removeVote by a user on a poll
\* changes a vote row of another user or a vote row of that user in another
\* poll, or any poll or option row.
VoteFrame ==
  [][\A p \in Procs :
       (Stepped(p) /\ proc'[p].op \in VoteActions) =>
         /\ polls' = polls /\ options' = options
         /\ OthersVotes(votes', proc'[p].user, proc'[p].poll)
              = OthersVotes(votes, proc'[p].user, proc'[p].poll)
  ]_vars

\* User 1 has removed their vote in the first poll; their vote in the second
\* poll and the vote of user 2 in the first are still there.
RemovedOnlyOwnWitness ==
  /\ proc[1].pc = "done" /\ proc[1].op = "removeVote" /\ proc[1].res.ok
  /\ proc[1].user = 1 /\ proc[1].poll = 1
  /\ MyVotes(1, 1) = {}
  /\ MyVotes(1, 2) # {}
  /\ MyVotes(2, 1) # {}

\* ================================================= the poll detail page
\* PollDetailPage's isActive, isPollActive(poll) and castVote's timing test
\* evaluated for the stored poll at the same instant.
RenderPage ==
  /\ \E q \in polls :
       out' = [starts_at |-> q.starts_at, ends_at |-> q.ends_at, now |-> now,
               status |-> "page",
               active |-> pageIsActive(q, now),
               isPollActive |-> isPollActive(q, now),
               castVote |-> castVoteTiming(q, now) = "ok"]
  /\ UNCHANGED <<polls, options, votes, now, proc, nextId, form>>

NextPage == RenderPage \/ Tick

SpecPage == InitStatus /\ [][NextPage]_vars

\* C30: for every window and every instant the page's isActive equals
\* isPollActive(poll) and equals castVote's acceptance of the poll's timing.
PageAgreesWithServer ==
  out.status = "page" =>
    /\ out.active = out.isPollActive
    /\ out.active = out.castVote

====
